---- MODULE Spec2Model ----
(***************************************************************************)
(* Content ingestion and retrieval engine of AI-Assistant.                 *)
(*                                                                         *)
(* The stores are modelled by what their clients observe: the Mongo        *)
(* collection user_content_files (content_files), the Mongo collection     *)
(* user_information (user_info), the Qdrant collections and their points,  *)
(* and the Redis audio cache.  A request handler is one action; what the   *)
(* environment decides (a backend call raising, what a file or a page      *)
(* holds) is an input of the action.                                       *)
(***************************************************************************)
EXTENDS Integers, Sequences, FiniteSets, TLC

\* ---------------------------------------------------------------- bounds
\* Uploads that get as far as drawing a content_id in one behaviour.
MaxUploads == 1
\* Chunks a long document has beyond one full batch.
ExtraChunks == 1
\* Points the vector store holds when the queries start.
MaxPoints == 3
\* Callers of ensure_collection_exists at the same time.
NumCallers == 2
\* History entries created in one behaviour.
MaxCreates == 4
\* Seconds the clock of the cache runs.
MaxClock == 3

\* Section headers in a text that is chunked.
MaxHeaders == 1

\* ------------------------------------------------------ program constants
CONTENT_LIMIT == 10
batch_size == 20
top_k == 10
\* Records _clean_old_user_records keeps for a user.
keep_records == 3
\* The default limit of HistoryManager.retrieve_user_history.
history_limit == 5
\* Records the tenant "u1" holds in the initial state: one below the limit, or
\* at the limit.
PreloadCounts == {CONTENT_LIMIT - 1, CONTENT_LIMIT}

Tenants == {"u1", "u2"}
Callers == 1..NumCallers
\* A caller outside ensure_collection_exists.
IdleCaller == [pc |-> "idle", name |-> "", failed |-> FALSE]
VECTOR_COLLECTION == "SITE_INFORMATION"
Filenames == {"a.pdf"}
Urls == {"http://x"}
\* Python's None where the model holds a number (a content_id).
None == 0
\* Python's None where the model holds a user_id.
NoUser == "None"

\* Chunk counts of the documents the uploads carry: an empty text and a text
\* longer than one batch.
ChunkCounts == {0, batch_size + ExtraChunks}

VARIABLES
    content_files,  \* Mongo user_content_files: the ContentRecords
    collections,    \* names of the Qdrant collections that exist
    points,         \* the points of all Qdrant collections
    next_uuid,      \* the next fresh content_id (uuid4)
    user_info,      \* Mongo user_information: the history entries
    cache,          \* Redis: key -> None or the entry SET stored
    clock,          \* the time, in seconds
    callers,        \* the callers of ensure_collection_exists
    asked,          \* history: per key, the last set_audio_cache that wrote
    last            \* history: the last request and its answer

vars == <<content_files, collections, points, next_uuid, user_info, cache,
          clock, callers, asked, last>>

contentVars == <<content_files, collections, points, next_uuid>>
historyVars == <<user_info>>
cacheVars == <<cache, asked>>

\* ------------------------------------------------------------------ Mongo
\* MongoManager.get_user_content_files: the records on success, [] when the
\* read raises.
get_user_content_files(user_id, content_type, ok) ==
    IF ok
    THEN {f \in content_files :
            f.user_id = user_id /\ f.content_type = content_type}
    ELSE {}

\* MongoManager.get_content_count(user_id): 0 when the read raises.
get_content_count(user_id, ok) ==
    IF ok
    THEN Cardinality({f \in content_files : f.user_id = user_id})
    ELSE 0

\* The lookup with the user_id condition left out of the query.
get_content_file_by_id_AnyUser(user_id, content_id, ok) ==
    IF ok THEN {f \in content_files : f.content_id = content_id} ELSE {}

\* MongoManager.get_content_file_by_id: None when absent or when it raises.
get_content_file_by_id(user_id, content_id, ok) ==
    IF ok
    THEN {f \in content_files :
            f.user_id = user_id /\ f.content_id = content_id}
    ELSE {}

\* The document add_content_file inserts.
ContentFile(user_id, content_id, content_type, source) ==
    [user_id |-> user_id, content_id |-> content_id,
     content_type |-> content_type, source |-> source]

\* ----------------------------------------------------------------- Qdrant
\* Qdrant.ensure_collection_exists run without interleaving.  get_collection
\* raises when the collection is absent or the backend fails (getOk false);
\* then create_collection runs and raises when the collection exists or the
\* backend fails (createOk false), and that error is re-raised.
ensure_collection_exists(colls, name, getOk, createOk) ==
    IF name \in colls /\ getOk
    THEN [raised |-> FALSE, colls |-> colls]
    ELSE IF name \notin colls /\ createOk
         THEN [raised |-> FALSE, colls |-> colls \cup {name}]
         ELSE [raised |-> TRUE, colls |-> colls]

\* Number of batches range(0, len(chunks), batch_size) yields.
NumBatches(n) == (n + batch_size - 1) \div batch_size

\* The points one upsert_data call builds for chunks lo..hi.
ChunkPoints(name, meta, lo, hi) ==
    {[collection |-> name, id |-> <<meta.content_id, k>>,
      payload |-> [content_id |-> meta.content_id, user_id |-> meta.user_id,
                   content_type |-> meta.content_type,
                   source |-> meta.source, text |-> k]] : k \in lo..hi}

\* Qdrant.upsert_data(is_content=True).  nchunks is len(chunks); env.failAt is
\* the batch whose embedding call or backend upsert raises (0: none does).
\* Every exception is caught and the method then returns None.
upsert_data(colls, pts, name, nchunks, meta, env) ==
    LET ens == ensure_collection_exists(colls, name, env.backendOk, env.backendOk)
        written == IF env.failAt = 0 THEN nchunks
                   ELSE (env.failAt - 1) * batch_size
    IN  IF ens.raised
        THEN [ret |-> "None", colls |-> colls, points |-> pts]
        ELSE [ret |-> IF env.failAt = 0
                      THEN "Content Data Successfully Uploaded" ELSE "None",
              colls |-> ens.colls,
              points |-> pts \cup ChunkPoints(name, meta, 1, written)]

\* Qdrant.delete_content_by_id: True, or False when ensure_collection_exists
\* or the filtered delete raises.
delete_content_by_id(colls, pts, name, content_id, env) ==
    LET ens == ensure_collection_exists(colls, name, env.backendOk, env.backendOk)
    IN  IF ens.raised
        THEN [ret |-> FALSE, colls |-> colls, points |-> pts]
        ELSE IF ~env.deleteOk
        THEN [ret |-> FALSE, colls |-> ens.colls, points |-> pts]
        ELSE [ret |-> TRUE, colls |-> ens.colls,
              points |-> {p \in pts : ~(p.collection = name
                                        /\ p.payload.content_id = content_id)}]

\* The filter with the content_id condition left out.
MatchesFilter_UserOnly(payload, user_id, content_ids) ==
    user_id # NoUser => payload.user_id = user_id

\* A point's payload passes Filter(must=filters): the user_id condition is
\* there when user_id is truthy, the content_id MatchAny condition when
\* content_ids is a non-empty list.
MatchesFilter(payload, user_id, content_ids) ==
    /\ user_id # NoUser => payload.user_id = user_id
    /\ content_ids # {} => payload.content_id \in content_ids

\* query_points(limit=top_k): the top_k best hits; which points rank best is
\* the embedding's affair.
TopHits(matches) ==
    IF Cardinality(matches) <= top_k THEN {matches}
    ELSE {h \in SUBSET matches : Cardinality(h) = top_k}

\* The try block of Qdrant.retrieve_similar_content.  env tells which backend
\* and embedding calls raise; a raising points_count check is only logged.
retrieve_body(colls, pts, name, user_id, content_ids, env) ==
    LET ens == ensure_collection_exists(colls, name, env.getOk, env.createOk)
        held == {p \in pts : p.collection = name}
        matches == {p \in held : MatchesFilter(p.payload, user_id, content_ids)}
    IN  IF ens.raised
        THEN [raised |-> TRUE, ret |-> {}, colls |-> colls]
        ELSE IF env.infoOk /\ held = {}
        THEN [raised |-> FALSE, ret |-> {}, colls |-> ens.colls]
        ELSE IF ~env.embedOk \/ ~env.queryOk
        THEN [raised |-> TRUE, ret |-> {}, colls |-> ens.colls]
        ELSE [raised |-> FALSE, ret |-> {p.payload : p \in env.hits \cap matches},
              colls |-> ens.colls]

\* The try block with no except clause around it.
retrieve_similar_content_NoExcept(colls, pts, name, user_id, content_ids, env) ==
    retrieve_body(colls, pts, name, user_id, content_ids, env)

\* Qdrant.retrieve_similar_content: the try block, and [] on any exception.
retrieve_similar_content(colls, pts, name, user_id, content_ids, env) ==
    LET b == retrieve_body(colls, pts, name, user_id, content_ids, env)
    IN  IF b.raised THEN [b EXCEPT !.raised = FALSE, !.ret = {}] ELSE b

\* ----------------------------------------------------------------- History
\* HistoryManager.create_history passes graph_id_referenced to
\* MongoManager.create_user_information, which has no such parameter: the call
\* raises TypeError before anything is stored.
create_history_raises == TRUE

\* -------------------------------------------------------------------- RAG
\* extract_text_from_pdf (or file.save) raising; extract_text_from_url
\* returning None.
ExtractFails == -1

TextDupPdf == "PDF already exists."
TextDupUrl == "URL already exists."
TextQuota == "Your quota is full. Maximum 10 content items allowed."
TextPdfOk == "PDF uploaded successfully."
TextPdfError == "Error uploading PDF"
TextInvalidUrl == "Invalid URL"
TextExtractFailed == "Failed to extract content from URL."
TextWebOk == "Web content added successfully."
TextWebError == "Error adding web content"

\* The duplicate check of both upload paths: any(f.get(key) == source ...).
IsDuplicate(files, source) == \E f \in files : f.source = source

\* The quota check of both upload paths.
QuotaFull(count) == count >= CONTENT_LIMIT

\* A rejection issued after the content_id is drawn and the file is saved.
Rejected_FileSaved(text, env) ==
    [text |-> text, content_id |-> None, drawn |-> next_uuid,
     files |-> content_files, colls |-> collections, points |-> points,
     env |-> env, nchunks |-> 0, upsert_failed |-> FALSE, stored |-> FALSE]

\* What an upload that returns before save_doc_to_rag answers and leaves.
Rejected(text, env) ==
    [text |-> text, content_id |-> None, drawn |-> None,
     files |-> content_files, colls |-> collections, points |-> points,
     env |-> env, nchunks |-> 0, upsert_failed |-> FALSE, stored |-> FALSE]

\* The tail both upload paths share once the content_id is drawn and the text
\* is extracted: save_doc_to_rag (its result is not looked at), then
\* add_content_file, add_memory and create_history, each of which may raise
\* into the handler's except clause.  nchunks < 0: upsert_data is not reached.
StoreContent(user_id, content_type, source, nchunks, env, okText, errText) ==
    LET cid == next_uuid
        meta == [content_id |-> cid, user_id |-> user_id,
                 content_type |-> content_type, source |-> source]
        up == IF nchunks >= 0
              THEN upsert_data(collections, points, user_id, nchunks, meta, env)
              ELSE [ret |-> "None", colls |-> collections, points |-> points]
        files == IF env.addOk
                 THEN content_files \cup
                        {ContentFile(user_id, cid, content_type, source)}
                 ELSE content_files
        done == env.addOk /\ ~create_history_raises
    IN  [text |-> IF done THEN okText ELSE errText,
         content_id |-> IF done THEN cid ELSE None, drawn |-> cid,
         files |-> files, colls |-> up.colls, points |-> up.points,
         env |-> env, nchunks |-> IF nchunks >= 0 THEN nchunks ELSE 0,
         upsert_failed |-> (nchunks >= 0 /\ up.ret = "None"),
         stored |-> env.addOk]

\* save_retrievable_docs with the quota check placed before the duplicate
\* check.
save_retrievable_docs_QuotaFirst(user_id, filename, env) ==
    IF QuotaFull(get_content_count(user_id, env.countOk))
    THEN Rejected(TextQuota, env)
    ELSE IF IsDuplicate(get_user_content_files(user_id, "pdf", env.findOk), filename)
    THEN Rejected(TextDupPdf, env)
    ELSE IF env.extract = ExtractFails
    THEN [Rejected(TextPdfError, env) EXCEPT !.drawn = next_uuid]
    ELSE StoreContent(user_id, "pdf", filename, env.extract, env,
                      TextPdfOk, TextPdfError)

\* RAG.save_retrievable_docs(file, user_id).  env.extract is the number of
\* chunks of the file's text, or ExtractFails.
save_retrievable_docs(user_id, filename, env) ==
    IF IsDuplicate(get_user_content_files(user_id, "pdf", env.findOk), filename)
    THEN Rejected(TextDupPdf, env)
    ELSE IF QuotaFull(get_content_count(user_id, env.countOk))
    THEN Rejected(TextQuota, env)
    ELSE IF env.extract = ExtractFails
    THEN [Rejected(TextPdfError, env) EXCEPT !.drawn = next_uuid]
    ELSE StoreContent(user_id, "pdf", filename, env.extract, env,
                      TextPdfOk, TextPdfError)

\* RAG.save_web_content(url, user_id).  env.urlOk is validate_url's verdict;
\* env.extract is ExtractFails when extract_text_from_url returns None;
\* env.extract2 is the chunk count of the text process_web_content extracts
\* again inside save_doc_to_rag, or ExtractFails.
save_web_content(user_id, url, env) ==
    IF ~env.urlOk
    THEN Rejected(TextInvalidUrl, env)
    ELSE IF IsDuplicate(get_user_content_files(user_id, "web", env.findOk), url)
    THEN Rejected(TextDupUrl, env)
    ELSE IF QuotaFull(get_content_count(user_id, env.countOk))
    THEN Rejected(TextQuota, env)
    ELSE IF env.extract = ExtractFails
    THEN [Rejected(TextExtractFailed, env) EXCEPT !.drawn = next_uuid]
    ELSE StoreContent(user_id, "web", url, env.extract2, env,
                      TextWebOk, TextWebError)

\* The arguments RAG.query passes to retrieve_similar_content: the tenant's
\* collection with the user_id and content_ids filters when filter is truthy,
\* the general collection with no filter otherwise.
QueryCall(user_id, filter, content_ids) ==
    IF filter
    THEN [collection_name |-> user_id, user_id |-> user_id,
          content_ids |-> content_ids]
    ELSE [collection_name |-> VECTOR_COLLECTION, user_id |-> NoUser,
          content_ids |-> {}]

\* RAG.query(query_str, user_id, filter, content_ids): one retrieval with the
\* arguments of QueryCall; [] on any exception.
query(colls, pts, user_id, filter, content_ids, env) ==
    LET a == QueryCall(user_id, filter, content_ids)
        b == retrieve_similar_content(colls, pts, a.collection_name, a.user_id,
                                      a.content_ids, env)
    IN  IF b.raised THEN [b EXCEPT !.raised = FALSE, !.ret = {}] ELSE b

\* The lists [h.payload for h in hits] can be for a set of returned payloads:
\* the backend decides the order.
Listings(S) ==
    {s \in [1..Cardinality(S) -> S] :
        \A i, j \in 1..Cardinality(S) : i # j => s[i] # s[j]}

\* The combination with the tenant's results put first.
CombineResults_TenantFirst(result1, result2) == result2 \o result1

\* combined_results of get_result_from_rag: result1 extended by result2.
CombineResults(result1, result2) == result1 \o result2

TextRag == "RAG"

\* get_result_from_rag without the "if not combined_results" return.
get_result_from_rag_NoEmptyCheck(colls, pts, user_id, content_ids, env) ==
    LET q1 == query(colls, pts, user_id, FALSE, {}, env.first)
        q2 == query(q1.colls, pts, user_id, TRUE, content_ids, env.second)
        result1 == IF q1.ret = {} THEN <<>> ELSE env.order1
        result2 == IF q2.ret = {} THEN <<>> ELSE env.order2
    IN  [ret |-> IF env.generateOk THEN TextRag ELSE "None",
         calls |-> <<QueryCall(user_id, FALSE, {}),
                     QueryCall(user_id, TRUE, content_ids)>>,
         returned |-> <<result1, result2>>,
         combined |-> CombineResults(result1, result2), searched |-> TRUE,
         generated |-> TRUE, colls |-> q2.colls]

\* RAG.get_result_from_rag(query_str, user_id, content_ids).  env.first and
\* env.second are the inputs of the two retrievals, env.order1 and env.order2
\* the order in which the backend lists their hits, env.generateOk tells
\* whether llm.generate returns.  ret is "None" or the response of type "RAG";
\* calls lists the retrievals issued, searched and generated tell whether
\* get_context_urls and llm.generate were called.
get_result_from_rag(colls, pts, user_id, content_ids, env) ==
    LET q1 == query(colls, pts, user_id, FALSE, {}, env.first)
        q2 == query(q1.colls, pts, user_id, TRUE, content_ids, env.second)
        result1 == IF q1.ret = {} THEN <<>> ELSE env.order1
        result2 == IF q2.ret = {} THEN <<>> ELSE env.order2
        combined_results == CombineResults(result1, result2)
        calls == <<QueryCall(user_id, FALSE, {}),
                   QueryCall(user_id, TRUE, content_ids)>>
    IN  IF combined_results = <<>>
        THEN [ret |-> "None", calls |-> calls, returned |-> <<result1, result2>>,
              combined |-> combined_results, searched |-> FALSE,
              generated |-> FALSE, colls |-> q2.colls]
        ELSE [ret |-> IF env.generateOk THEN TextRag ELSE "None",
              calls |-> calls, returned |-> <<result1, result2>>,
              combined |-> combined_results, searched |-> TRUE,
              generated |-> TRUE, colls |-> q2.colls]

\* The fallback sentence: it occurs in RETRIEVE_PROMPT only, as an instruction
\* to the model that generates the answer.
TextCantHelp == "I can't help with your question."

TextFinalNone == "Final response: None"

TextNoResponse == "No response generated"

\* AiAssistance._rag_agent followed by _finalize_response, for the response
\* get_result_from_rag returned: the workflow state after the "rag" route.
\* _rag_agent stores the response and one message, the finalizer appends
\* "Final response: {response}".
rag_workflow(response) ==
    [response |-> response,
     messages |-> <<"Query classified as: rag", "RAG query processed",
                    IF response = "None" THEN TextFinalNone
                    ELSE "Final response: RAG">>]

\* AiAssistance.agent for a query routed to the rag agent: the state's
\* response when it is truthy, else the content of the last message, else
\* "No response generated".
agent(response) ==
    LET result == rag_workflow(response)
    IN  IF result.response # "None" THEN result.response
        ELSE IF result.messages # <<>>
        THEN result.messages[Len(result.messages)]
        ELSE TextNoResponse

\* --------------------------------------------------------------- requests
\* The inputs of a request that the environment decides.  An input is drawn
\* only where the handler reads it: a lookup that raises is told from one that
\* succeeds only when a record would have been found, the count only at the
\* limit, and the later steps only when the earlier ones let the handler
\* reach them.
NoEnv ==
    [urlOk |-> TRUE, findOk |-> TRUE, countOk |-> TRUE, extract |-> 0,
     extract2 |-> 0, backendOk |-> TRUE, failAt |-> 0, addOk |-> TRUE]

FindChoices(user_id, content_type, source) ==
    IF IsDuplicate(get_user_content_files(user_id, content_type, TRUE), source)
    THEN BOOLEAN ELSE {TRUE}

CountChoices(user_id) ==
    IF QuotaFull(get_content_count(user_id, TRUE)) THEN BOOLEAN ELSE {TRUE}

\* The inputs of the steps after the extraction, for a text of n chunks.
StoreEnvs(env, n) ==
    {[env EXCEPT !.failAt = k, !.addOk = a] :
        k \in 0..NumBatches(n), a \in BOOLEAN} \cup
    {[env EXCEPT !.backendOk = FALSE, !.addOk = a] : a \in BOOLEAN}

PdfEnvs(user_id, filename) ==
    UNION {UNION {{[NoEnv EXCEPT !.findOk = f, !.countOk = c,
                                 !.extract = ExtractFails]}
                  \cup UNION {StoreEnvs([NoEnv EXCEPT !.findOk = f,
                                            !.countOk = c, !.extract = n], n) :
                              n \in ChunkCounts} :
                  c \in CountChoices(user_id)} :
           f \in FindChoices(user_id, "pdf", filename)}

WebEnvs(user_id, url) ==
    {[NoEnv EXCEPT !.urlOk = FALSE]} \cup
    UNION {UNION {{[NoEnv EXCEPT !.findOk = f, !.countOk = c,
                                 !.extract = ExtractFails]}
                  \cup {[NoEnv EXCEPT !.findOk = f, !.countOk = c,
                                      !.extract2 = ExtractFails, !.addOk = a] :
                        a \in BOOLEAN}
                  \cup UNION {StoreEnvs([NoEnv EXCEPT !.findOk = f,
                                            !.countOk = c, !.extract2 = n], n) :
                              n \in ChunkCounts} :
                  c \in CountChoices(user_id)} :
           f \in FindChoices(user_id, "web", url)}

\* last is a history variable: the request answered last and its answer, until
\* Forget drops it.  A request follows any other once the answer is dropped,
\* and follows the same request (same handler, tenant and source) at once;
\* last.repeat tells the second of two such calls.  An upload also follows at
\* once a delete_content answered 200 that named a record of its source;
\* last.after_delete tells such an upload.
Idle == [op |-> "none"]

MayCall(op, user_id, key) ==
    \/ last.op = "none"
    \/ /\ last.op = op /\ last.user_id = user_id /\ last.key = key
       /\ op # "delete_content" /\ ~last.repeat
    \/ /\ last.op = "delete_content" /\ last.code = 200
       /\ op # "delete_content" /\ last.user_id = user_id
       /\ last.source = key

Forget ==
    /\ last.op # "none"
    /\ last' = Idle
    /\ UNCHANGED <<contentVars, historyVars, cacheVars, clock, callers>>

\* An upload request answered with r.
Upload(op, user_id, source, r) ==
    /\ r.drawn # None => next_uuid <= CONTENT_LIMIT + MaxUploads
    /\ content_files' = r.files
    /\ collections' = r.colls
    /\ points' = r.points
    /\ next_uuid' = IF r.drawn # None THEN next_uuid + 1 ELSE next_uuid
    /\ last' = [op |-> op, user_id |-> user_id, key |-> source,
                repeat |-> (last.op # "none"), text |-> r.text,
                after_delete |-> (last.op = "delete_content"),
                deleted |-> IF last.op = "delete_content"
                            THEN [content_id |-> last.key, ids |-> last.deleted]
                            ELSE [content_id |-> None, ids |-> {}],
                content_id |-> r.content_id, drawn |-> r.drawn,
                url_ok |-> r.env.urlOk, find_ok |-> r.env.findOk,
                count_ok |-> r.env.countOk, nchunks |-> r.nchunks,
                upsert_failed |-> r.upsert_failed, stored |-> r.stored,
                after_stored |-> (last.op = op /\ last.stored),
                at_limit |-> (get_content_count(user_id, TRUE) = CONTENT_LIMIT),
                had_source |-> IsDuplicate(get_user_content_files(user_id, IF op = "save_retrievable_docs" THEN "pdf" ELSE "web", TRUE), source),
                created |-> (r.files # content_files \/ r.points # points)]
    /\ UNCHANGED <<historyVars, cacheVars, clock, callers>>

SaveRetrievableDocs ==
    \E user_id \in Tenants, filename \in Filenames :
        /\ MayCall("save_retrievable_docs", user_id, filename)
        /\ \E env \in PdfEnvs(user_id, filename) :
             \E r \in {save_retrievable_docs(user_id, filename, env)} :
                 Upload("save_retrievable_docs", user_id, filename, r)

SaveWebContent ==
    \E user_id \in Tenants, url \in Urls :
        /\ MayCall("save_web_content", user_id, url)
        /\ \E env \in WebEnvs(user_id, url) :
             \E r \in {save_web_content(user_id, url, env)} :
                 Upload("save_web_content", user_id, url, r)

\* routes.delete_content(user_id, content_id): 404 when the record is not
\* found (or the lookup raises); otherwise the record is deleted (a failure of
\* delete_content_file is not looked at), then the points (the result of
\* delete_content_by_id is not looked at), and the answer is 200.
delete_content(user_id, content_id, env) ==
    IF get_content_file_by_id(user_id, content_id, env.findOk) = {}
    THEN [code |-> 404, files |-> content_files, colls |-> collections,
          points |-> points, qdrant_ok |-> TRUE]
    ELSE LET q == delete_content_by_id(collections, points, user_id,
                                       content_id, env)
         IN  [code |-> 200,
              files |-> IF env.mongoOk
                        THEN {f \in content_files :
                                ~(f.user_id = user_id
                                  /\ f.content_id = content_id)}
                        ELSE content_files,
              colls |-> q.colls, points |-> q.points, qdrant_ok |-> q.ret]

\* The filename or url of the record a delete request names ("": no record).
SourceOf(user_id, content_id) ==
    LET found == get_content_file_by_id(user_id, content_id, TRUE)
    IN  IF found = {} THEN "" ELSE (CHOOSE f \in found : TRUE).source

\* The content identifiers delete requests name: a preloaded one and the ones
\* the uploads of this behaviour draw.
DeleteTargets == {1} \cup ((CONTENT_LIMIT + 1)..(CONTENT_LIMIT + MaxUploads))

DeleteEnvs(user_id, content_id) ==
    IF get_content_file_by_id(user_id, content_id, TRUE) = {}
    THEN {[findOk |-> TRUE, mongoOk |-> TRUE, backendOk |-> TRUE,
           deleteOk |-> TRUE]}
    ELSE {[findOk |-> FALSE, mongoOk |-> TRUE, backendOk |-> TRUE,
           deleteOk |-> TRUE]} \cup
         {[findOk |-> TRUE, mongoOk |-> m, backendOk |-> b, deleteOk |-> d] :
            m \in BOOLEAN, b \in BOOLEAN, d \in BOOLEAN}

DeleteContent ==
    \E user_id \in Tenants, content_id \in DeleteTargets :
        /\ MayCall("delete_content", user_id, content_id)
        /\ \E env \in DeleteEnvs(user_id, content_id) :
             \E r \in {delete_content(user_id, content_id, env)} :
                 /\ content_files' = r.files
                 /\ collections' = r.colls
                 /\ points' = r.points
                 /\ next_uuid' = next_uuid
                 /\ last' = [op |-> "delete_content", user_id |-> user_id,
                             key |-> content_id, repeat |-> FALSE,
                             code |-> r.code, qdrant_ok |-> r.qdrant_ok,
                             source |-> SourceOf(user_id, content_id),
                             deleted |-> {p.id : p \in {q \in points :
                                            /\ q.collection = user_id
                                            /\ q.payload.content_id = content_id}}]
                 /\ UNCHANGED <<historyVars, cacheVars, clock, callers>>

\* ------------------------------------------------------------ specification
\* The tenant "u1" holds one-chunk PDFs uploaded earlier, the tenant "u2" nothing.
PreloadName(i) == "p" \o ToString(i) \o ".pdf"

CacheKeys == {"audio:summary:u1:1", "audio:query:u1:q1"}

\* A key Redis holds nothing under.
NoEntry == [data |-> None, set_at |-> 0, ex |-> 0]

\* The history store and the cache before any request.
InitOther ==
    /\ user_info = {}
    /\ cache = [k \in CacheKeys |-> NoEntry]
    /\ asked = [k \in CacheKeys |-> NoEntry]
    /\ clock = 0
    /\ callers = [c \in Callers |-> IdleCaller]

PreloadFile(i) == ContentFile("u1", i, "pdf", PreloadName(i))

Init ==
    /\ InitOther
    /\ \E n \in PreloadCounts :
         /\ content_files = {PreloadFile(i) : i \in 1..n}
         /\ points = UNION {ChunkPoints("u1", PreloadFile(i), 1, 1) : i \in 1..n}
    /\ collections = {"u1"}
    /\ next_uuid = CONTENT_LIMIT + 1
    /\ last = Idle

Next == SaveRetrievableDocs \/ SaveWebContent \/ DeleteContent \/ Forget

Spec == Init /\ [][Next]_vars

\* ------------------------------------------------- specification: lifecycle
\* Uploads, deletions and tenant wipes, one request at a time, on a small
\* store: each tenant holds the one-chunk PDF "a.pdf" and one history entry.
\* routes.clear_user_data(user_id): every record get_user_content_files
\* returns is deleted (a failure of delete_content_file is not looked at),
\* then the history; when clear_user_history raises the answer is 500 and the
\* collection is not touched; a failure of delete_collection is only printed
\* and the answer is 200.
clear_user_data(user_id, env) ==
    LET all_content_files ==
            get_user_content_files(user_id, "pdf", env.listOk)
                \cup get_user_content_files(user_id, "web", env.listOk)
        files == IF env.mongoOk THEN content_files \ all_content_files
                 ELSE content_files
    IN  IF ~env.historyOk
        THEN [code |-> 500, files |-> files, infos |-> user_info,
              colls |-> collections, points |-> points]
        ELSE [code |-> 200, files |-> files,
              infos |-> {r \in user_info : r.user_id # user_id},
              colls |-> IF env.qdrantOk THEN collections \ {user_id}
                        ELSE collections,
              points |-> IF env.qdrantOk
                         THEN {p \in points : p.collection # user_id}
                         ELSE points]

ClearEnvs ==
    {[listOk |-> l, mongoOk |-> m, historyOk |-> h, qdrantOk |-> q] :
        l \in BOOLEAN, m \in BOOLEAN, h \in BOOLEAN, q \in BOOLEAN}

\* before holds the records, history entries and points of the other tenants
\* as they were when the request was made.
ClearUserData ==
    \E user_id \in Tenants, env \in ClearEnvs :
        /\ last.op = "none"
        /\ \E r \in {clear_user_data(user_id, env)} :
             /\ content_files' = r.files
             /\ user_info' = r.infos
             /\ collections' = r.colls
             /\ points' = r.points
             /\ last' = [op |-> "clear_user_data", user_id |-> user_id,
                         key |-> "", repeat |-> FALSE, code |-> r.code,
                         qdrant_ok |-> env.qdrantOk, list_ok |-> env.listOk,
                         mongo_ok |-> env.mongoOk,
                         before |->
                            <<{f \in content_files : f.user_id # user_id},
                              {i \in user_info : i.user_id # user_id},
                              {p \in points : p.collection # user_id}>>]
             /\ UNCHANGED <<next_uuid, cacheVars, clock, callers>>

LifecycleFile(user_id) ==
    ContentFile(user_id, IF user_id = "u1" THEN 1 ELSE 2, "pdf", "a.pdf")

InitLifecycle ==
    /\ content_files = {LifecycleFile(u) : u \in Tenants}
    /\ points = UNION {ChunkPoints(u, LifecycleFile(u), 1, 1) : u \in Tenants}
    /\ collections = Tenants
    /\ user_info = {[user_id |-> u, time |-> 0] : u \in Tenants}
    /\ next_uuid = CONTENT_LIMIT + 1
    /\ cache = [k \in CacheKeys |-> NoEntry]
    /\ asked = [k \in CacheKeys |-> NoEntry]
    /\ clock = 0
    /\ callers = [c \in Callers |-> IdleCaller]
    /\ last = Idle

NextLifecycle ==
    SaveRetrievableDocs \/ DeleteContent \/ ClearUserData \/ Forget

SpecLifecycle == InitLifecycle /\ [][NextLifecycle]_vars

\* ------------------------------------------------------- specification: query
\* The points a collection may hold when the queries start: any payload in any
\* tenant's collection, one point in the general collection.
QueryContentIds == {1, 2}

QueryPoint(name, user_id, content_id) ==
    [collection |-> name, id |-> <<content_id, 1>>,
     payload |-> [content_id |-> content_id, user_id |-> user_id,
                  content_type |-> "pdf", source |-> "a.pdf", text |-> 1]]

QueryUniverse ==
    {QueryPoint(name, u, c) : name \in Tenants, u \in Tenants,
                              c \in QueryContentIds}
    \cup {QueryPoint(VECTOR_COLLECTION, NoUser, None)}

InitQuery ==
    /\ InitOther
    /\ content_files = {}
    /\ next_uuid = 1
    /\ points \in {ps \in SUBSET QueryUniverse : Cardinality(ps) <= MaxPoints}
    /\ collections = {p.collection : p \in points}
    /\ last = Idle

\* The inputs of a retrieval that the environment decides: the call that
\* raises, if one does, and which matching points the backend ranks best.
AllOk == [getOk |-> TRUE, createOk |-> TRUE, infoOk |-> TRUE, embedOk |-> TRUE, queryOk |-> TRUE]

Failures ==
    {AllOk, [AllOk EXCEPT !.getOk = FALSE], [AllOk EXCEPT !.createOk = FALSE],
     [AllOk EXCEPT !.infoOk = FALSE], [AllOk EXCEPT !.embedOk = FALSE],
     [AllOk EXCEPT !.queryOk = FALSE]}

QueryEnvs(name, user_id, content_ids) ==
    {[getOk |-> f.getOk, createOk |-> f.createOk, infoOk |-> f.infoOk,
      embedOk |-> f.embedOk, queryOk |-> f.queryOk, hits |-> h] :
        f \in Failures,
        h \in TopHits({p \in points : /\ p.collection = name
                                      /\ MatchesFilter(p.payload, user_id,
                                                       content_ids)})}

\* What a retrieval answered with r leaves.
Answered(op, name, user_id, filter, content_ids, env, r) ==
    /\ collections' = r.colls
    /\ last' = [op |-> op, collection |-> name, user_id |-> user_id,
                filter |-> filter, content_ids |-> content_ids,
                raised |-> r.raised, ret |-> r.ret,
                errored |-> retrieve_body(collections, points, name,
                                          IF filter THEN user_id ELSE NoUser,
                                          IF filter THEN content_ids ELSE {},
                                          env).raised,
                info_ok |-> env.infoOk]
    /\ UNCHANGED <<content_files, points, next_uuid, historyVars, cacheVars,
                   clock, callers>>

\* A direct call of Qdrant.retrieve_similar_content on a tenant's collection.
RetrieveSimilarContent ==
    \E name \in Tenants, user_id \in Tenants \cup {NoUser} :
        \E content_ids \in SUBSET QueryContentIds :
            /\ last.op = "none"
            /\ \E env \in QueryEnvs(name, user_id, content_ids) :
                \E r \in {retrieve_similar_content(collections, points, name,
                                                   user_id, content_ids, env)} :
                    Answered("retrieve_similar_content", name, user_id, TRUE,
                             content_ids, env, r)

QueryName(user_id, filter) == IF filter THEN user_id ELSE VECTOR_COLLECTION

Query ==
    \E user_id \in Tenants, filter \in BOOLEAN :
        \E content_ids \in SUBSET QueryContentIds :
            /\ last.op = "none"
            /\ \E env \in QueryEnvs(QueryName(user_id, filter),
                                 IF filter THEN user_id ELSE NoUser,
                                 IF filter THEN content_ids ELSE {}) :
                \E r \in {query(collections, points, user_id, filter,
                                content_ids, env)} :
                    Answered("query", QueryName(user_id, filter), user_id,
                             filter, content_ids, env, r)

\* A call of RAG.get_result_from_rag.  errored tells, for each of the two
\* retrievals, whether its try block raised.
GetResultFromRag ==
    \E user_id \in Tenants, content_ids \in SUBSET QueryContentIds :
        /\ last.op = "none"
        /\ \E e1 \in QueryEnvs(VECTOR_COLLECTION, NoUser, {}),
              e2 \in QueryEnvs(user_id, user_id, content_ids) :
            LET q1 == query(collections, points, user_id, FALSE, {}, e1)
                q2 == query(q1.colls, points, user_id, TRUE, content_ids, e2)
                b1 == retrieve_body(collections, points, VECTOR_COLLECTION,
                                    NoUser, {}, e1)
                b2 == retrieve_body(q1.colls, points, user_id, user_id,
                                    content_ids, e2)
            IN  \E o1 \in Listings(q1.ret), o2 \in Listings(q2.ret) :
                  \E g \in (IF q1.ret = {} /\ q2.ret = {} THEN {TRUE}
                            ELSE BOOLEAN) :
                    \E r \in {get_result_from_rag(collections, points, user_id,
                                content_ids,
                                [first |-> e1, second |-> e2, order1 |-> o1,
                                 order2 |-> o2, generateOk |-> g])} :
                        /\ collections' = r.colls
                        /\ last' = [op |-> "get_result_from_rag",
                                    user_id |-> user_id,
                                    content_ids |-> content_ids,
                                    calls |-> r.calls, returned |-> r.returned,
                                    listed |-> <<o1, o2>>,
                                    combined |-> r.combined,
                                    searched |-> r.searched,
                                    generated |-> r.generated, ret |-> r.ret,
                                    errored |-> <<b1.raised, b2.raised>>,
                                    generate_ok |-> g]
                        /\ UNCHANGED <<content_files, points, next_uuid,
                                       historyVars, cacheVars, clock, callers>>

\* A call of AiAssistance.agent whose query the classifier routes to the rag
\* agent: get_result_from_rag with no content_ids, then the workflow's answer.
\* had_content tells whether the tenant's collection held a point of the
\* tenant when the call was made.
Agent ==
    \E user_id \in Tenants :
        /\ last.op = "none"
        /\ \E e1 \in QueryEnvs(VECTOR_COLLECTION, NoUser, {}),
              e2 \in QueryEnvs(user_id, user_id, {}) :
            LET q1 == query(collections, points, user_id, FALSE, {}, e1)
                q2 == query(q1.colls, points, user_id, TRUE, {}, e2)
                b1 == retrieve_body(collections, points, VECTOR_COLLECTION,
                                    NoUser, {}, e1)
            IN  \E o1 \in Listings(q1.ret), o2 \in Listings(q2.ret) :
                  \E g \in (IF q1.ret = {} /\ q2.ret = {} THEN {TRUE}
                            ELSE BOOLEAN) :
                    \E r \in {get_result_from_rag(collections, points, user_id,
                                {},
                                [first |-> e1, second |-> e2, order1 |-> o1,
                                 order2 |-> o2, generateOk |-> g])} :
                        /\ collections' = r.colls
                        /\ last' = [op |-> "agent", user_id |-> user_id,
                                    had_content |->
                                        (\E p \in points :
                                            /\ p.collection = user_id
                                            /\ p.payload.user_id = user_id),
                                    shared_failed |-> b1.raised,
                                    response |-> r.ret,
                                    answer |-> agent(r.ret)]
                        /\ UNCHANGED <<content_files, points, next_uuid,
                                       historyVars, cacheVars, clock, callers>>

NextQuery ==
    RetrieveSimilarContent \/ Query \/ GetResultFromRag \/ Agent \/ Forget

SpecQuery == InitQuery /\ [][NextQuery]_vars


\* ---------------------------------------- specification: ensure_collection
\* Qdrant.ensure_collection_exists run by several callers, one backend call
\* at a time.  failed tells that the backend itself failed a call of this
\* caller (as opposed to answering that the collection exists or not).
CollectionNames == Tenants

InitEnsure ==
    /\ InitOther
    /\ content_files = {}
    /\ next_uuid = 1
    /\ points = {}
    /\ collections \in SUBSET CollectionNames
    /\ last = Idle

\* A caller enters ensure_collection_exists(name).
EnsureCall(c) ==
    /\ callers[c].pc \in {"idle", "done", "raised"}
    /\ \E name \in CollectionNames :
         callers' = [callers EXCEPT ![c] = [pc |-> "get", name |-> name,
                                            failed |-> FALSE]]
    /\ UNCHANGED <<contentVars, historyVars, cacheVars, clock, last>>

\* self.client.get_collection(name): raises when the collection is absent or
\* the backend fails, and then the caller goes on to create.
EnsureGet(c) ==
    /\ callers[c].pc = "get"
    /\ IF callers[c].name \in collections
       THEN \E ok \in BOOLEAN :
              callers' = [callers EXCEPT
                            ![c].pc = IF ok THEN "done" ELSE "create",
                            ![c].failed = ~ok]
       ELSE callers' = [callers EXCEPT ![c].pc = "create"]
    /\ UNCHANGED <<contentVars, historyVars, cacheVars, clock, last>>

\* self.client.create_collection(name): raises when the collection exists by
\* now or the backend fails, and ensure_collection_exists re-raises it.
EnsureCreate(c) ==
    /\ callers[c].pc = "create"
    /\ IF callers[c].name \in collections
       THEN /\ callers' = [callers EXCEPT ![c].pc = "raised"]
            /\ collections' = collections
       ELSE \E ok \in BOOLEAN :
              IF ok
              THEN /\ collections' = collections \cup {callers[c].name}
                   /\ callers' = [callers EXCEPT ![c].pc = "done"]
              ELSE /\ collections' = collections
                   /\ callers' = [callers EXCEPT ![c].pc = "raised",
                                                 ![c].failed = TRUE]
    /\ UNCHANGED <<content_files, points, next_uuid, historyVars, cacheVars,
                   clock, last>>

NextEnsure == \E c \in Callers : EnsureCall(c) \/ EnsureGet(c) \/ EnsureCreate(c)

SpecEnsure == InitEnsure /\ [][NextEnsure]_vars

\* ------------------------------------------------------ specification: history
\* The user's entries, newest first: find({"user_id": user_id}).sort("time", -1).
UserRecords(infos, user_id) == {e \in infos : e.user_id = user_id}

\* The n most recent of a set of entries.
MostRecent(es, n) ==
    {e \in es : Cardinality({d \in es : d.time > e.time}) < n}

\* MongoManager._clean_old_user_records: deletes the user's entries beyond the
\* keep_records most recent; an exception is logged and nothing is deleted.
clean_old_user_records(infos, user_id, ok) ==
    IF ok
    THEN (infos \ UserRecords(infos, user_id))
         \cup MostRecent(UserRecords(infos, user_id), keep_records)
    ELSE infos

\* MongoManager.create_user_information: cleans first, then inserts the new
\* entry; raises when the insert fails.
create_user_information(infos, user_id, now, env) ==
    LET cleaned == clean_old_user_records(infos, user_id, env.cleanOk)
    IN  IF env.insertOk
        THEN [raised |-> FALSE,
              infos |-> cleaned \cup {[user_id |-> user_id, time |-> now]}]
        ELSE [raised |-> TRUE, infos |-> cleaned]

\* The first n of a set of entries in ascending order of time.
RECURSIVE Oldest(_, _)
Oldest(es, n) ==
    IF n = 0 \/ es = {} THEN <<>>
    ELSE LET e == CHOOSE x \in es : \A y \in es : x.time <= y.time
         IN  <<e.time>> \o Oldest(es \ {e}, n - 1)

\* MongoManager.get_user_information(user_id, limit): [] when the read raises.
get_user_information(infos, user_id, limit, ok) ==
    IF ok THEN Oldest(UserRecords(infos, user_id), limit) ELSE <<>>

\* HistoryManager.retrieve_user_history(user_id): the times of the entries.
retrieve_user_history(infos, user_id, ok) ==
    get_user_information(infos, user_id, history_limit, ok)

InitHistory ==
    /\ InitOther
    /\ content_files = {}
    /\ next_uuid = 1
    /\ points = {}
    /\ collections = {}
    /\ last = Idle

\* A direct create_user_information (save_user_information's path).
CreateUserInformation ==
    \E user_id \in Tenants, cleanOk \in BOOLEAN, insertOk \in BOOLEAN :
        \E r \in {create_user_information(user_info, user_id, clock + 1, [cleanOk |-> cleanOk, insertOk |-> insertOk])} :
            /\ clock < MaxCreates
            /\ clock' = clock + 1
            /\ user_info' = r.infos
            /\ last' = [op |-> "create_user_information", user_id |-> user_id,
                        raised |-> r.raised, clean_ok |-> cleanOk,
                        before |-> Cardinality(UserRecords(user_info, user_id)),
                        history |-> <<>>]
            /\ UNCHANGED <<contentVars, cacheVars, callers>>

\* HistoryManager.create_history: raises before anything is stored.
CreateHistory ==
    \E user_id \in Tenants :
        /\ create_history_raises
        /\ last' = [op |-> "create_history", user_id |-> user_id,
                    raised |-> TRUE, clean_ok |-> TRUE,
                    before |-> Cardinality(UserRecords(user_info, user_id)),
                    history |-> <<>>]
        /\ UNCHANGED <<contentVars, historyVars, cacheVars, clock, callers>>

RetrieveUserHistory ==
    \E user_id \in Tenants, ok \in BOOLEAN :
        /\ last' = [op |-> "retrieve_user_history", user_id |-> user_id,
                    raised |-> FALSE, clean_ok |-> ok,
                    before |-> Cardinality(UserRecords(user_info, user_id)),
                    history |-> retrieve_user_history(user_info, user_id, ok)]
        /\ UNCHANGED <<contentVars, historyVars, cacheVars, clock, callers>>

NextHistory == CreateUserInformation \/ CreateHistory \/ RetrieveUserHistory

SpecHistory == InitHistory /\ [][NextHistory]_vars

\* ------------------------------------------------------- specification: stores
\* The JSON file store (History) and the SQL store (DatabaseManager) of the
\* conversation history.  user_info is here the pair of the two stores: file
\* maps a user to the list of their entries as history.json holds it, sql is
\* the set of rows of the table user_information.  Successive calls read
\* strictly increasing times.
FILE_KEEP == 3
SQL_KEEP == 3

NoHistory == [u \in Tenants |-> <<>>]

\* History._load_history: the file's content, {} when reading it raises.
load_history(file, ok) == IF ok THEN file ELSE NoHistory

\* e put into the list s, sorted by time, behind the entries that are not later.
SortedInsert(s, e) ==
    LET k == Cardinality({i \in 1..Len(s) : s[i].time <= e.time})
    IN  SubSeq(s, 1, k) \o <<e>> \o SubSeq(s, k + 1, Len(s))

\* list.sort(key=lambda x: x["time"]): a stable sort.
RECURSIVE SortByTime(_)
SortByTime(s) ==
    IF s = <<>> THEN <<>>
    ELSE SortedInsert(SortByTime(SubSeq(s, 1, Len(s) - 1)), s[Len(s)])

\* s[-n:]
LastN(s, n) == IF Len(s) <= n THEN s ELSE SubSeq(s, Len(s) - n + 1, Len(s))

\* History.create_history: reloads the file, appends the entry to the user's
\* list, sorts it, keeps the last FILE_KEEP and writes what it loaded back.
History_create_history(file, user_id, query_id, now, loadOk) ==
    LET history == load_history(file, loadOk)
        entry == [query_id |-> query_id, time |-> now]
    IN  [history EXCEPT ![user_id] =
            LastN(SortByTime(Append(history[user_id], entry)), FILE_KEEP)]

\* DatabaseManager.create_user_information: adds the row, deletes the user's
\* rows behind the SQL_KEEP latest and commits; any exception rolls back and
\* is raised again.
DatabaseManager_create_user_information(rows, user_id, id, now, ok) ==
    LET added == rows \cup {[id |-> id, user_id |-> user_id, time |-> now]}
        messages == UserRecords(added, user_id)
    IN  IF ~ok THEN [raised |-> TRUE, rows |-> rows]
        ELSE [raised |-> FALSE,
              rows |-> IF Cardinality(messages) > SQL_KEEP
                       THEN (added \ messages) \cup MostRecent(messages, SQL_KEEP)
                       ELSE added]

InitStores ==
    /\ user_info = [file |-> NoHistory, sql |-> {}]
    /\ cache = [k \in CacheKeys |-> NoEntry]
    /\ asked = [k \in CacheKeys |-> NoEntry]
    /\ clock = 0
    /\ callers = [c \in Callers |-> IdleCaller]
    /\ content_files = {}
    /\ next_uuid = 1
    /\ points = {}
    /\ collections = {}
    /\ last = Idle

\* A call of History.create_history.
FileCreateHistory ==
    /\ clock < MaxCreates
    /\ \E user_id \in Tenants, loadOk \in BOOLEAN :
         /\ user_info' = [user_info EXCEPT !.file =
               History_create_history(user_info.file, user_id, next_uuid,
                                      clock + 1, loadOk)]
         /\ last' = [op |-> "History.create_history", user_id |-> user_id,
                     raised |-> FALSE, ok |-> loadOk, before |-> user_info,
                     entry |-> [query_id |-> next_uuid, time |-> clock + 1]]
    /\ clock' = clock + 1
    /\ next_uuid' = next_uuid + 1
    /\ UNCHANGED <<content_files, collections, points, cacheVars, callers>>

\* A call of DatabaseManager.create_user_information.
SqlCreateUserInformation ==
    /\ clock < MaxCreates
    /\ \E user_id \in Tenants, ok \in BOOLEAN :
         \E r \in {DatabaseManager_create_user_information(
                       user_info.sql, user_id, next_uuid, clock + 1, ok)} :
            /\ user_info' = [user_info EXCEPT !.sql = r.rows]
            /\ last' = [op |-> "DatabaseManager.create_user_information",
                        user_id |-> user_id, raised |-> r.raised, ok |-> ok,
                        before |-> user_info,
                        entry |-> [id |-> next_uuid, user_id |-> user_id,
                                   time |-> clock + 1]]
    /\ clock' = clock + 1
    /\ next_uuid' = next_uuid + 1
    /\ UNCHANGED <<content_files, collections, points, cacheVars, callers>>

TextApology ==
    "I apologize, but I encountered an error while processing your request."

\* What advanced_llm.generate does with the conversation prompt: it raises,
\* returns an empty output, or returns a text with "response:", with
\* "question:" or with neither.
Generations == {"raises", "", "response:", "question:", "other"}

\* DatabaseManager.save_user_information: create_user_information, with every
\* exception printed and None returned.
save_user_information(rows, user_id, id, now, ok) ==
    DatabaseManager_create_user_information(rows, user_id, id, now, ok).rows

\* AiAssistance.assistant without a graph_id.  generate raising is not
\* caught here; every branch behind it saves the user information first.
assistant(stores, user_id, id, now, env) ==
    LET saved == [stores EXCEPT !.sql =
                     save_user_information(stores.sql, user_id, id, now,
                                           env.saveOk)]
    IN  IF env.generate = "raises"
        THEN [raised |-> TRUE, ret |-> "", stores |-> stores]
        ELSE IF env.generate = ""
        THEN [raised |-> FALSE, ret |-> TextApology, stores |-> saved]
        ELSE IF env.generate = "response:"
        THEN [raised |-> FALSE, ret |-> "final_response",
              stores |-> [saved EXCEPT !.file =
                             History_create_history(saved.file, user_id,
                                                    id + 1, now, env.loadOk)]]
        ELSE IF env.generate = "question:"
        THEN [raised |-> FALSE, ret |-> "agent_response", stores |-> saved]
        ELSE [raised |-> FALSE, ret |-> "response", stores |-> saved]

\* AiAssistance.assistant_response for a query: asyncio.run(self.assistant(..))
\* inside try / except: traceback.print_exc(), which leaves None to return.
assistant_response(stores, user_id, id, now, env) ==
    LET r == assistant(stores, user_id, id, now, env)
    IN  IF r.raised THEN [ret |-> "None", stores |-> r.stores]
        ELSE [ret |-> r.ret, stores |-> r.stores]

\* A call of AiAssistance.assistant_response with a query and no file.
AssistantResponse ==
    /\ clock < MaxCreates
    /\ \E user_id \in Tenants, generate \in Generations,
          saveOk \in BOOLEAN, loadOk \in BOOLEAN :
         /\ generate # "response:" => loadOk
         /\ generate = "raises" => saveOk
         /\ \E r \in {assistant_response(user_info, user_id, next_uuid,
                         clock + 1, [generate |-> generate,
                                     saveOk |-> saveOk, loadOk |-> loadOk])} :
              /\ user_info' = r.stores
              /\ last' = [op |-> "assistant_response", user_id |-> user_id,
                          raised |-> FALSE, ok |-> saveOk,
                          before |-> user_info, generate |-> generate,
                          ret |-> r.ret,
                          entry |-> [id |-> next_uuid, user_id |-> user_id,
                                     time |-> clock + 1]]
    /\ clock' = clock + 1
    /\ next_uuid' = next_uuid + 2
    /\ UNCHANGED <<content_files, collections, points, cacheVars, callers>>

NextStores ==
    FileCreateHistory \/ SqlCreateUserInformation \/ AssistantResponse

SpecStores == InitStores /\ [][NextStores]_vars

\* -------------------------------------------------------- specification: cache
\* Redis drops a key ex seconds after the SET that wrote it.
Expired(entry, now) == now - entry.set_at >= entry.ex

\* set_audio_cache storing the entry for one second more than asked.
set_audio_cache_Longer(c, key, audio_bytes, expire_seconds, now, env) ==
    IF ~env.available \/ ~env.callOk THEN c
    ELSE [c EXCEPT ![key] = [data |-> audio_bytes, set_at |-> now,
                             ex |-> expire_seconds + 1]]

\* RedisManager.set_audio_cache(key, audio_bytes, expire_seconds): nothing is
\* written when Redis is not available or the SET raises.
set_audio_cache(c, key, audio_bytes, expire_seconds, now, env) ==
    IF ~env.available \/ ~env.callOk THEN c
    ELSE [c EXCEPT ![key] = [data |-> audio_bytes, set_at |-> now,
                             ex |-> expire_seconds]]

\* get_audio_cache without the availability check and the except clause.
get_audio_cache_Unguarded(c, key, now, env) ==
    IF c[key].data = None \/ Expired(c[key], now) THEN None
    ELSE c[key].data

\* RedisManager.get_audio_cache(key): the bytes, or None when Redis is not
\* available, the GET raises, or the key is absent or expired.
get_audio_cache(c, key, now, env) ==
    IF ~env.available \/ ~env.callOk THEN None
    ELSE IF c[key].data = None \/ Expired(c[key], now) THEN None
    ELSE c[key].data

AudioBytes == {1, 2}
ExpireSeconds == {1, 2}
RedisEnvs == {[available |-> a, callOk |-> o] : a \in BOOLEAN, o \in BOOLEAN}

InitCache ==
    /\ InitOther
    /\ content_files = {}
    /\ next_uuid = 1
    /\ points = {}
    /\ collections = {}
    /\ last = Idle

\* asked is a history variable: per key, the bytes, the time and the
\* expire_seconds of the last set_audio_cache that wrote.
SetAudioCache ==
    \E key \in CacheKeys, b \in AudioBytes, t \in ExpireSeconds, env \in RedisEnvs :
        /\ cache' = set_audio_cache(cache, key, b, t, clock, env)
        /\ asked' = IF env.available /\ env.callOk
                    THEN [asked EXCEPT ![key] = [data |-> b, set_at |-> clock,
                                                 ex |-> t]]
                    ELSE asked
        /\ last' = [op |-> "set_audio_cache", key |-> key, at |-> clock,
                    ret |-> None, available |-> env.available,
                    call_ok |-> env.callOk]
        /\ UNCHANGED <<contentVars, historyVars, clock, callers>>

GetAudioCache ==
    \E key \in CacheKeys, env \in RedisEnvs :
        /\ last' = [op |-> "get_audio_cache", key |-> key, at |-> clock,
                    ret |-> get_audio_cache(cache, key, clock, env),
                    available |-> env.available, call_ok |-> env.callOk]
        /\ UNCHANGED <<contentVars, historyVars, cacheVars, clock, callers>>

\* A second passes.
Tick ==
    /\ clock < MaxClock
    /\ clock' = clock + 1
    /\ UNCHANGED <<contentVars, historyVars, cacheVars, callers, last>>

\* expire_seconds of the audio endpoints' set_audio_cache call.
AUDIO_TTL == 600

\* A TTSManager that had the method the audio endpoints call.
has_generate_audio_on_demand_Defined == TRUE

\* TTSManager defines generate_audio, generate_summary_audio and
\* generate_query_audio; the audio endpoints call
\* tts_manager.generate_audio_on_demand, which raises AttributeError.
has_generate_audio_on_demand == FALSE

\* What the stored record gives an audio endpoint: no record, a record whose
\* summary / assistant answer is empty, or one with text.
TextLookups == {"missing", "empty", "text"}

\* The body get_summary_audio and get_query_audio share after the cache key
\* is built.  env.get and env.set are the inputs of the two cache calls,
\* env.audio the bytes generation returns (None when it fails).  generated
\* tells whether audio was generated, sets how many set_audio_cache calls
\* were made.
serve_audio(c, key, text, now, env) ==
    LET audio_data == get_audio_cache(c, key, now, env.get)
        failed == [code |-> 500, body |-> None, cache |-> c, hit |-> FALSE,
                   generated |-> FALSE, sets |-> 0, ttl |-> 0]
    IN  IF audio_data # None
        THEN [code |-> 200, body |-> audio_data, cache |-> c, hit |-> TRUE,
              generated |-> FALSE, sets |-> 0, ttl |-> 0]
        ELSE IF text # "text"
        THEN [failed EXCEPT !.code = 404]
        ELSE IF ~has_generate_audio_on_demand
        THEN failed
        ELSE IF env.audio = None
        THEN [failed EXCEPT !.generated = TRUE]
        ELSE [code |-> 200, body |-> env.audio,
              cache |-> set_audio_cache(c, key, env.audio, AUDIO_TTL, now,
                                        env.set),
              hit |-> FALSE, generated |-> TRUE, sets |-> 1,
              ttl |-> AUDIO_TTL]

\* routes.get_summary_audio for user_id "u1" and content_id 1.
get_summary_audio(c, text, now, env) ==
    serve_audio(c, "audio:summary:u1:1", text, now, env)

\* routes.get_query_audio for user_id "u1" and query_id "q1".
get_query_audio(c, text, now, env) ==
    serve_audio(c, "audio:query:u1:q1", text, now, env)

\* The inputs of an audio request that the environment decides; those of the
\* generation and of the set_audio_cache call only where the handler can
\* reach them.
AudioEnvs(text) ==
    LET reached == (text = "text" /\ has_generate_audio_on_demand)
    IN  {[get |-> g, set |-> s, audio |-> a] :
            g \in RedisEnvs,
            s \in IF reached THEN RedisEnvs
                  ELSE {[available |-> TRUE, callOk |-> TRUE]},
            a \in IF reached THEN AudioBytes \cup {None} ELSE {None}}

\* An audio request answered with r.  held is what the cache held for the key,
\* unexpired, when the request was made (None: nothing).
ServedAudio(op, key, text, env, r) ==
    /\ cache' = r.cache
    /\ asked' = IF r.cache # cache
                THEN [asked EXCEPT ![key] = r.cache[key]] ELSE asked
    /\ last' = [op |-> op, key |-> key, at |-> clock, ret |-> r.body,
                code |-> r.code, hit |-> r.hit, text |-> text,
                generated |-> r.generated, sets |-> r.sets, ttl |-> r.ttl,
                held |-> get_audio_cache(cache, key, clock,
                                         [available |-> TRUE, callOk |-> TRUE]),
                get_ok |-> (env.get.available /\ env.get.callOk)]
    /\ UNCHANGED <<contentVars, historyVars, clock, callers>>

GetSummaryAudio ==
    \E text \in TextLookups : \E env \in AudioEnvs(text) :
        \E r \in {get_summary_audio(cache, text, clock, env)} :
            ServedAudio("get_summary_audio", "audio:summary:u1:1", text, env, r)

GetQueryAudio ==
    \E text \in TextLookups : \E env \in AudioEnvs(text) :
        \E r \in {get_query_audio(cache, text, clock, env)} :
            ServedAudio("get_query_audio", "audio:query:u1:q1", text, env, r)

NextCache ==
    SetAudioCache \/ GetAudioCache \/ GetSummaryAudio \/ GetQueryAudio \/ Tick

SpecCache == InitCache /\ [][NextCache]_vars


\* ------------------------------------------------------ specification: audio
\* get_summary_audio for (u1, content_id 1) among delete_content and
\* clear_user_data requests: every tenant starts with one stored PDF, and
\* Redis holds nothing.
\* mongo_db_manager.get_content_file_by_id followed by
\* content_file.get("summary"): what the request finds for its text.
SummaryLookups(user_id, content_id, ok) ==
    IF get_content_file_by_id(user_id, content_id, ok) = {}
    THEN {"missing"} ELSE {"empty", "text"}

InitAudio == InitLifecycle

GetSummaryAudioOfContent ==
    \E ok \in BOOLEAN : \E text \in SummaryLookups("u1", 1, ok) :
        \E env \in AudioEnvs(text) :
            \E r \in {get_summary_audio(cache, text, clock, env)} :
                ServedAudio("get_summary_audio", "audio:summary:u1:1", text,
                            env, r)

NextAudio ==
    GetSummaryAudioOfContent \/ DeleteContent \/ ClearUserData \/ Forget

SpecAudio == InitAudio /\ [][NextAudio]_vars

\* ----------------------------------------------------- specification: delete
\* delete_content requests of either tenant for the content of either tenant;
\* every tenant starts with one stored PDF.
\* The names under storage/pdfs that delete_content passes to os.remove: that
\* of the content_id, when a record was found and the form's content_type or
\* the record's is "pdf".
removed_pdfs(user_id, content_id, content_type, ok) ==
    {f.content_id : f \in {g \in get_content_file_by_id(user_id, content_id, ok) :
                             content_type = "pdf" \/ g.content_type = "pdf"}}

StoredIds == {LifecycleFile(u).content_id : u \in Tenants}

DeleteContentOf ==
    \E user_id \in Tenants, content_id \in StoredIds,
       content_type \in {"pdf", "web"} :
        /\ last.op = "none"
        /\ \E findOk \in BOOLEAN, mongoOk \in BOOLEAN, backendOk \in BOOLEAN,
              deleteOk \in BOOLEAN :
             \E r \in {delete_content(user_id, content_id,
                          [findOk |-> findOk, mongoOk |-> mongoOk,
                           backendOk |-> backendOk, deleteOk |-> deleteOk])} :
                 /\ content_files' = r.files
                 /\ collections' = r.colls
                 /\ points' = r.points
                 /\ last' = [op |-> "delete_content", user_id |-> user_id,
                             key |-> content_id, code |-> r.code,
                             removed |-> removed_pdfs(user_id, content_id,
                                                      content_type, findOk),
                             before |-> [files |-> content_files,
                                         points |-> points]]
        /\ UNCHANGED <<next_uuid, historyVars, cacheVars, clock, callers>>

NextDelete == DeleteContentOf \/ Forget

SpecDelete == InitLifecycle /\ [][NextDelete]_vars

\* ----------------------------------------------------- specification: routes
\* The routes upload_content, delete_content and clear_user_data as requests
\* that passed token_required: current_user_id is the user_id of the token,
\* user_id the field of the form (NoUser: the form has none).  The shared
\* collection and the memory collection exist and hold a point each; every
\* tenant starts with one stored PDF and one history entry.  Every backend
\* call succeeds here, and an uploaded document has one chunk.
USER_COLLECTION == "CHAT_MEMORY"

SharedCollections == {VECTOR_COLLECTION, USER_COLLECTION}

SharedPoints ==
    ChunkPoints(VECTOR_COLLECTION,
                [content_id |-> None, user_id |-> NoUser,
                 content_type |-> "site", source |-> "site"], 1, 1)
    \cup ChunkPoints(USER_COLLECTION,
                     [content_id |-> None, user_id |-> "u1",
                      content_type |-> "memory", source |-> "memory"], 1, 1)

\* The inputs of an upload whose backend calls all succeed.
RouteEnv == [NoEnv EXCEPT !.extract = 1, !.extract2 = 1]

\* The user_id strings a form carries.
FormUserIds == Tenants \cup SharedCollections \cup {NoUser}

InitRoutes ==
    /\ content_files = {LifecycleFile(u) : u \in Tenants}
    /\ points = SharedPoints
                \cup UNION {ChunkPoints(u, LifecycleFile(u), 1, 1) : u \in Tenants}
    /\ collections = Tenants \cup SharedCollections
    /\ user_info = {[user_id |-> u, time |-> 0] : u \in Tenants}
    /\ next_uuid = CONTENT_LIMIT + 1
    /\ cache = [k \in CacheKeys |-> NoEntry]
    /\ asked = [k \in CacheKeys |-> NoEntry]
    /\ clock = 0
    /\ callers = [c \in Callers |-> IdleCaller]
    /\ last = Idle

\* A request answered: the stores it leaves, and in last who asked, for which
\* user_id the handler worked, and the stores as they were.
RouteAnswered(op, current_user_id, user_id, code, files, colls, pts, infos) ==
    /\ content_files' = files
    /\ collections' = colls
    /\ points' = pts
    /\ user_info' = infos
    /\ last' = [op |-> op, current_user_id |-> current_user_id,
                user_id |-> user_id, code |-> code,
                before |-> [files |-> content_files, colls |-> collections,
                            points |-> points, infos |-> user_info]]

\* routes.upload_content with one PDF file or one url in the request.
RouteUploadContent ==
    \E current_user_id \in Tenants, user_id \in FormUserIds :
        /\ last.op = "none"
        /\ \/ /\ user_id = NoUser
              /\ RouteAnswered("upload_content", current_user_id, user_id, 400,
                               content_files, collections, points, user_info)
              /\ UNCHANGED next_uuid
           \/ /\ user_id # NoUser
              /\ \E r \in {save_retrievable_docs(user_id, f, RouteEnv) :
                                f \in Filenames}
                          \cup {save_web_content(user_id, u, RouteEnv) :
                                  u \in Urls} :
                   /\ r.drawn # None => next_uuid <= CONTENT_LIMIT + MaxUploads
                   /\ RouteAnswered("upload_content", current_user_id, user_id,
                                    200, r.files, r.colls, r.points, user_info)
                   /\ next_uuid' = IF r.drawn # None THEN next_uuid + 1
                                   ELSE next_uuid
        /\ UNCHANGED <<cacheVars, clock, callers>>

\* routes.delete_content.
RouteDeleteContent ==
    \E current_user_id \in Tenants, user_id \in FormUserIds,
       content_id \in StoredIds :
        /\ last.op = "none"
        /\ \/ /\ user_id = NoUser
              /\ RouteAnswered("delete_content", current_user_id, user_id, 400,
                               content_files, collections, points, user_info)
           \/ /\ user_id # NoUser
              /\ \E env \in {[findOk |-> TRUE, mongoOk |-> TRUE,
                              backendOk |-> TRUE, deleteOk |-> TRUE]} :
                   \E r \in {delete_content(user_id, content_id, env)} :
                      RouteAnswered("delete_content", current_user_id, user_id,
                                    r.code, r.files, r.colls, r.points,
                                    user_info)
        /\ UNCHANGED <<next_uuid, cacheVars, clock, callers>>

\* routes.clear_user_data: user_id = data.get("user_id") or current_user_id.
RouteClearUserData ==
    \E current_user_id \in Tenants, form_id \in FormUserIds,
       env \in {[listOk |-> TRUE, mongoOk |-> TRUE, historyOk |-> TRUE,
                 qdrantOk |-> TRUE]} :
        /\ last.op = "none"
        /\ \E user_id \in {IF form_id = NoUser THEN current_user_id ELSE form_id} :
             \E r \in {clear_user_data(user_id, env)} :
                RouteAnswered("clear_user_data", current_user_id, user_id,
                              r.code, r.files, r.colls, r.points, r.infos)
        /\ UNCHANGED <<next_uuid, cacheVars, clock, callers>>

NextRoutes ==
    RouteUploadContent \/ RouteDeleteContent \/ RouteClearUserData \/ Forget

SpecRoutes == InitRoutes /\ [][NextRoutes]_vars

\* --------------------------------------------------- specification: workflow
\* Runs of the LangGraph workflow of AiAssistance, one per caller of
\* AiAssistance.agent, node by node.  path lists the nodes a run has passed.
\* The first word of the classifier's answer; "raises": generate raises or
\* answers nothing, so that response.split()[0] raises.
Words == {"annotation", "hypothesis", "rag", "error", "other"}

AgentNodes == {"annotation_agent", "hypothesis_agent", "rag_agent"}

\* The mapping of add_conditional_edges("classifier", self._route_query, ..).
RouteMap ==
    [w \in {"annotation", "hypothesis", "rag", "error"} |->
        CASE w = "annotation" -> "annotation_agent"
          [] w = "hypothesis" -> "hypothesis_agent"
          [] w = "rag" -> "rag_agent"
          [] w = "error" -> "finalizer"]

OutsideAgent ==
    [pc |-> "idle", word |-> "", path |-> <<>>, response |-> "",
     raised |-> FALSE, ret |-> ""]

InitWorkflow ==
    /\ user_info = {}
    /\ cache = [k \in CacheKeys |-> NoEntry]
    /\ asked = [k \in CacheKeys |-> NoEntry]
    /\ clock = 0
    /\ content_files = {}
    /\ next_uuid = 1
    /\ points = {}
    /\ collections = {}
    /\ callers = [c \in Callers |-> OutsideAgent]
    /\ last = Idle

\* agent() builds the initial state and invokes the graph.
WorkflowInvoke(c) ==
    /\ callers[c].pc = "idle"
    /\ callers' = [callers EXCEPT ![c] = [OutsideAgent EXCEPT !.pc = "classifier"]]
    /\ UNCHANGED <<contentVars, historyVars, cacheVars, clock, last>>

\* _classify_query: query_type is the first word of the answer.
WorkflowClassify(c) ==
    /\ callers[c].pc = "classifier"
    /\ \E w \in Words \cup {"raises"} :
         callers' = [callers EXCEPT ![c] =
            IF w = "raises"
            THEN [@ EXCEPT !.pc = "except", !.word = w, !.raised = TRUE,
                           !.path = <<"classifier">>]
            ELSE [@ EXCEPT !.pc = "route", !.word = w,
                           !.path = <<"classifier">>]]
    /\ UNCHANGED <<contentVars, historyVars, cacheVars, clock, last>>

\* _route_query returns query_type and the graph looks the word up in the
\* mapping of the conditional edge; a word the mapping does not hold raises.
WorkflowRoute(c) ==
    /\ callers[c].pc = "route"
    /\ callers' = [callers EXCEPT ![c] =
          IF callers[c].word \in DOMAIN RouteMap
          THEN [@ EXCEPT !.pc = RouteMap[callers[c].word]]
          ELSE [@ EXCEPT !.pc = "except", !.raised = TRUE]]
    /\ UNCHANGED <<contentVars, historyVars, cacheVars, clock, last>>

\* _annotation_agent, _hypothesis_agent, _rag_agent: the response of the
\* capability (None and "" included), or an error text when it raises.
WorkflowAgentNode(c) ==
    /\ callers[c].pc \in AgentNodes
    /\ \E response \in {"text", "None", "", "Error"} :
         callers' = [callers EXCEPT ![c] =
            [@ EXCEPT !.pc = "finalizer", !.response = response,
                      !.path = Append(callers[c].path, callers[c].pc)]]
    /\ UNCHANGED <<contentVars, historyVars, cacheVars, clock, last>>

\* _finalize_response, followed by the edge to END.
WorkflowFinalize(c) ==
    /\ callers[c].pc = "finalizer"
    /\ callers' = [callers EXCEPT ![c] =
          [@ EXCEPT !.pc = "END",
                    !.path = callers[c].path \o <<"finalizer", "END">>]]
    /\ UNCHANGED <<contentVars, historyVars, cacheVars, clock, last>>

\* agent() returns: the response when it is truthy, else the content of the
\* last message; "Error processing query: .." when the graph raised.
WorkflowReturn(c) ==
    /\ callers[c].pc \in {"END", "except"}
    /\ callers' = [callers EXCEPT ![c] =
          [@ EXCEPT !.pc = "returned",
                    !.ret = IF callers[c].raised THEN "Error processing query"
                            ELSE IF callers[c].response \notin {"None", ""}
                            THEN callers[c].response
                            ELSE IF callers[c].response = "None"
                            THEN TextFinalNone
                            ELSE "Final response: "]]
    /\ UNCHANGED <<contentVars, historyVars, cacheVars, clock, last>>

NextWorkflow ==
    \E c \in Callers :
        \/ WorkflowInvoke(c)
        \/ WorkflowClassify(c)
        \/ WorkflowRoute(c)
        \/ WorkflowAgentNode(c)
        \/ WorkflowFinalize(c)
        \/ WorkflowReturn(c)

SpecWorkflow == InitWorkflow /\ [][NextWorkflow]_vars

\* ----------------------------------------------------- specification: memory
\* The memory collection of storage/qdrant.py and calls of
\* Qdrant._create_memory_update_memory.  A memory is a point with the payload
\* fields user_id and created_at_updated_at; successive calls read strictly
\* increasing times.  The collection starts with MAX_MEMORY_LIMIT - 1 or
\* MAX_MEMORY_LIMIT memories, the oldest of one tenant and the others of one
\* tenant.
MAX_MEMORY_LIMIT == 10

\* USER_COLLECTION of storage/qdrant.py.
MEMORY_COLLECTION == "USER_COLLECTIONS"

Memory(id, user_id, time) ==
    [collection |-> MEMORY_COLLECTION, id |-> id,
     payload |-> [user_id |-> user_id, created_at_updated_at |-> time]]

Memories(pts) == {p \in pts : p.collection = MEMORY_COLLECTION}

\* sorted(memories[0], key=created_at_updated_at)[0]
OldestMemory(ms) ==
    CHOOSE m \in ms :
        \A o \in ms :
            m.payload.created_at_updated_at <= o.payload.created_at_updated_at

\* Qdrant._create_memory_update_memory(user_id, .., memory_id).  With a
\* memory_id the point of that id is overwritten.  Without one, the whole
\* collection is scrolled, the oldest memory is deleted when there are
\* MAX_MEMORY_LIMIT or more, and the new memory is upserted under a fresh id;
\* an exception of scroll, delete or upsert is printed and None is returned.
\* An exception of ensure_collection_exists or of the upsert with a memory_id
\* leaves the method.
create_memory_update_memory(pts, user_id, memory_id, fresh, now, env) ==
    LET ms == Memories(pts)
        evicted == IF Cardinality(ms) >= MAX_MEMORY_LIMIT
                   THEN {OldestMemory(ms)} ELSE {}
    IN  IF ~env.ensureOk
        THEN [raised |-> TRUE, ret |-> None, points |-> pts]
        ELSE IF memory_id # None
        THEN IF env.upsertOk
             THEN [raised |-> FALSE, ret |-> memory_id,
                   points |-> {p \in pts : ~(p.collection = MEMORY_COLLECTION
                                             /\ p.id = memory_id)}
                              \cup {Memory(memory_id, user_id, now)}]
             ELSE [raised |-> TRUE, ret |-> None, points |-> pts]
        ELSE IF ~env.scrollOk
        THEN [raised |-> FALSE, ret |-> None, points |-> pts]
        ELSE IF evicted # {} /\ ~env.deleteOk
        THEN [raised |-> FALSE, ret |-> None, points |-> pts]
        ELSE IF ~env.upsertOk
        THEN [raised |-> FALSE, ret |-> None, points |-> pts \ evicted]
        ELSE [raised |-> FALSE, ret |-> fresh,
              points |-> (pts \ evicted) \cup {Memory(fresh, user_id, now)}]

InitMemory ==
    /\ user_info = {}
    /\ cache = [k \in CacheKeys |-> NoEntry]
    /\ asked = [k \in CacheKeys |-> NoEntry]
    /\ content_files = {}
    /\ callers = [c \in Callers |-> IdleCaller]
    /\ collections = {MEMORY_COLLECTION}
    /\ \E n \in {MAX_MEMORY_LIMIT - 1, MAX_MEMORY_LIMIT},
          first \in Tenants, rest \in Tenants :
         /\ points = {Memory(1, first, 1)}
                     \cup {Memory(k, rest, k) : k \in 2..n}
         /\ next_uuid = n + 1
         /\ clock = n
    /\ last = Idle

\* A call of _create_memory_update_memory.
CreateMemoryUpdateMemory ==
    /\ next_uuid <= MAX_MEMORY_LIMIT + MaxCreates
    /\ \E user_id \in Tenants,
          memory_id \in {None} \cup {OldestMemory(Memories(points)).id},
          ensureOk \in BOOLEAN, scrollOk \in BOOLEAN, deleteOk \in BOOLEAN,
          upsertOk \in BOOLEAN :
         \E r \in {create_memory_update_memory(points, user_id, memory_id,
                      next_uuid, clock + 1,
                      [ensureOk |-> ensureOk, scrollOk |-> scrollOk,
                       deleteOk |-> deleteOk, upsertOk |-> upsertOk])} :
            /\ points' = r.points
            /\ last' = [op |-> "_create_memory_update_memory",
                        user_id |-> user_id, memory_id |-> memory_id,
                        raised |-> r.raised, ret |-> r.ret,
                        before |-> Memories(points)]
    /\ next_uuid' = next_uuid + 1
    /\ clock' = clock + 1
    /\ UNCHANGED <<content_files, collections, historyVars, cacheVars, callers>>

NextMemory == CreateMemoryUpdateMemory

SpecMemory == InitMemory /\ [][NextMemory]_vars

\* ---------------------------------------------------- specification: overlap
\* Upload requests of several callers that overlap: a handler is split at its
\* backend calls, and the calls of the callers interleave.  Every backend call
\* succeeds here but the count read of the quota check; a document has
\* ExtraChunks chunks.
OutsideUpload == [pc |-> "idle", user_id |-> NoUser, content_type |-> "", source |-> "", content_id |-> None, text |-> ""]

OverlapSources(content_type) == IF content_type = "pdf" THEN Filenames ELSE Urls

InitOverlap ==
    /\ user_info = {}
    /\ cache = [k \in CacheKeys |-> NoEntry]
    /\ asked = [k \in CacheKeys |-> NoEntry]
    /\ clock = 0
    /\ callers = [c \in Callers |-> OutsideUpload]
    /\ \E n \in PreloadCounts :
         /\ content_files = {PreloadFile(i) : i \in 1..n}
         /\ points = UNION {ChunkPoints("u1", PreloadFile(i), 1, 1) : i \in 1..n}
    /\ collections = {"u1"}
    /\ next_uuid = CONTENT_LIMIT + 1
    /\ last = Idle

\* A caller enters save_retrievable_docs or save_web_content (with a URL that
\* validate_url accepts).
OverlapCall(c) ==
    /\ callers[c].pc = "idle"
    /\ \E user_id \in Tenants, content_type \in {"pdf", "web"} :
         \E source \in OverlapSources(content_type) :
            callers' = [callers EXCEPT ![c] =
                          [OutsideUpload EXCEPT !.pc = "check_duplicate",
                                                !.user_id = user_id,
                                                !.content_type = content_type,
                                                !.source = source]]
    /\ UNCHANGED <<contentVars, historyVars, cacheVars, clock, last>>

\* get_user_content_files and the duplicate check.
OverlapCheckDuplicate(c) ==
    /\ callers[c].pc = "check_duplicate"
    /\ IF IsDuplicate(get_user_content_files(callers[c].user_id, callers[c].content_type, TRUE), callers[c].source)
       THEN callers' = [callers EXCEPT
                          ![c].pc = "done",
                          ![c].text = IF callers[c].content_type = "pdf"
                                      THEN TextDupPdf ELSE TextDupUrl]
       ELSE callers' = [callers EXCEPT ![c].pc = "check_quota"]
    /\ UNCHANGED <<contentVars, historyVars, cacheVars, clock, last>>

\* get_content_count and the quota check; an admitted upload draws its
\* content_id.  The count read may raise, and get_content_count then gives 0.
OverlapCheckQuota(c) ==
    /\ callers[c].pc = "check_quota"
    /\ \E ok \in CountChoices(callers[c].user_id) :
         IF QuotaFull(get_content_count(callers[c].user_id, ok))
         THEN /\ callers' = [callers EXCEPT ![c].pc = "done",
                                            ![c].text = TextQuota]
              /\ next_uuid' = next_uuid
         ELSE /\ callers' = [callers EXCEPT ![c].pc = "upsert",
                                            ![c].content_id = next_uuid]
              /\ next_uuid' = next_uuid + 1
    /\ UNCHANGED <<content_files, collections, points, historyVars, cacheVars,
                   clock, last>>

\* save_doc_to_rag: the chunks are embedded and upserted.
OverlapUpsert(c) ==
    /\ callers[c].pc = "upsert"
    /\ \E up \in {upsert_data(collections, points, callers[c].user_id, ExtraChunks, [content_id |-> callers[c].content_id, user_id |-> callers[c].user_id, content_type |-> callers[c].content_type, source |-> callers[c].source], NoEnv)} :
         /\ collections' = up.colls
         /\ points' = up.points
    /\ callers' = [callers EXCEPT ![c].pc = "add_content_file"]
    /\ UNCHANGED <<content_files, next_uuid, historyVars, cacheVars, clock, last>>

\* add_content_file inserts the record; create_history then raises and the
\* handler answers with its error text.
OverlapAddContentFile(c) ==
    /\ callers[c].pc = "add_content_file"
    /\ content_files' = content_files \cup
         {ContentFile(callers[c].user_id, callers[c].content_id,
                      callers[c].content_type, callers[c].source)}
    /\ callers' = [callers EXCEPT
         ![c].pc = "done",
         ![c].text = IF callers[c].content_type = "pdf"
                     THEN (IF create_history_raises THEN TextPdfError ELSE TextPdfOk)
                     ELSE (IF create_history_raises THEN TextWebError ELSE TextWebOk)]
    /\ UNCHANGED <<collections, points, next_uuid, historyVars, cacheVars,
                   clock, last>>

NextOverlap ==
    \E c \in Callers :
        \/ OverlapCall(c)
        \/ OverlapCheckDuplicate(c)
        \/ OverlapCheckQuota(c)
        \/ OverlapUpsert(c)
        \/ OverlapAddContentFile(c)

SpecOverlap == InitOverlap /\ [][NextOverlap]_vars

\* --------------------------------------------------- specification: teardown
\* Qdrant.upsert_data and Qdrant.retrieve_similar_content on a tenant's
\* collection, split at their backend calls and interleaved with the
\* delete_collection call of clear_user_data.  The backend answers every call;
\* an upsert or a query on a collection that does not exist is answered with
\* an error, which the method catches.  A document has batch_size +
\* ExtraChunks chunks; the document of caller c has content_id c.
OutsideUse == [pc |-> "idle", op |-> "", name |-> "", batch |-> 0]

InitTeardown ==
    /\ user_info = {}
    /\ cache = [k \in CacheKeys |-> NoEntry]
    /\ asked = [k \in CacheKeys |-> NoEntry]
    /\ clock = 0
    /\ content_files = {}
    /\ next_uuid = 1
    /\ points = {}
    /\ collections \in SUBSET {"u1"}
    /\ callers = [c \in Callers |-> OutsideUse]
    /\ last = Idle

\* A caller enters upsert_data or retrieve_similar_content for the tenant.
TeardownCall(c) ==
    /\ callers[c].pc = "idle"
    /\ \E op \in {"upsert_data", "retrieve_similar_content"} :
         callers' = [callers EXCEPT ![c] =
                        [pc |-> "ensure", op |-> op, name |-> "u1",
                         batch |-> 1]]
    /\ UNCHANGED <<contentVars, historyVars, cacheVars, clock, last>>

\* ensure_collection_exists: the collection is there afterwards.
TeardownEnsure(c) ==
    /\ callers[c].pc = "ensure"
    /\ \E ens \in {ensure_collection_exists(collections, callers[c].name,
                                            TRUE, TRUE)} :
         collections' = ens.colls
    /\ callers' = [callers EXCEPT ![c].pc =
                        IF callers[c].op = "upsert_data" THEN "use" ELSE "info"]
    /\ UNCHANGED <<content_files, points, next_uuid, historyVars, cacheVars,
                   clock, last>>

\* client.get_collection of retrieve_similar_content: an empty collection
\* ends the method with []; a failing call is logged and the method goes on.
TeardownInfo(c) ==
    /\ callers[c].pc = "info"
    /\ callers' = [callers EXCEPT ![c].pc =
                        IF /\ callers[c].name \in collections
                           /\ {p \in points : p.collection = callers[c].name} = {}
                        THEN "done" ELSE "use"]
    /\ UNCHANGED <<contentVars, historyVars, cacheVars, clock, last>>

\* client.upsert of the next batch: written when the collection exists, an
\* error otherwise, which ends upsert_data.  existed tells whether the
\* collection existed when the call was issued.
TeardownUpsert(c) ==
    /\ callers[c].pc = "use" /\ callers[c].op = "upsert_data"
    /\ LET name == callers[c].name
           k == callers[c].batch
           n == batch_size + ExtraChunks
           hi == IF k * batch_size < n THEN k * batch_size ELSE n
           meta == [content_id |-> c, user_id |-> name,
                    content_type |-> "pdf", source |-> "a.pdf"]
       IN  /\ points' = IF name \in collections
                        THEN points \cup
                             ChunkPoints(name, meta, (k - 1) * batch_size + 1, hi)
                        ELSE points
           /\ callers' = IF name \in collections /\ k < NumBatches(n)
                         THEN [callers EXCEPT ![c].batch = k + 1]
                         ELSE [callers EXCEPT ![c].pc = "done"]
           /\ last' = [op |-> "upsert", collection |-> name, caller |-> c,
                       batch |-> k, existed |-> (name \in collections)]
    /\ UNCHANGED <<content_files, collections, next_uuid, historyVars,
                   cacheVars, clock>>

\* client.query_points of retrieve_similar_content.
TeardownQuery(c) ==
    /\ callers[c].pc = "use" /\ callers[c].op = "retrieve_similar_content"
    /\ callers' = [callers EXCEPT ![c].pc = "done"]
    /\ last' = [op |-> "query_points", collection |-> callers[c].name,
                caller |-> c, batch |-> 0,
                existed |-> (callers[c].name \in collections)]
    /\ UNCHANGED <<contentVars, historyVars, cacheVars, clock>>

\* The method returns.
TeardownReturn(c) ==
    /\ callers[c].pc = "done"
    /\ callers' = [callers EXCEPT ![c] = OutsideUse]
    /\ UNCHANGED <<contentVars, historyVars, cacheVars, clock, last>>

\* clear_user_data of the tenant reaches delete_collection.
TeardownDeleteCollection ==
    /\ "u1" \in collections
    /\ collections' = collections \ {"u1"}
    /\ points' = {p \in points : p.collection # "u1"}
    /\ UNCHANGED <<content_files, next_uuid, historyVars, cacheVars, clock,
                   callers, last>>

NextTeardown ==
    \/ \E c \in Callers :
        \/ TeardownCall(c)
        \/ TeardownEnsure(c)
        \/ TeardownInfo(c)
        \/ TeardownUpsert(c)
        \/ TeardownQuery(c)
        \/ TeardownReturn(c)
    \/ TeardownDeleteCollection

SpecTeardown == InitTeardown /\ [][NextTeardown]_vars

\* ----------------------------------------------------- specification: upsert
\* Qdrant.upsert_data(is_content=True) step by step: ensure_collection_exists,
\* then for i in range(0, len(chunks), batch_size) one _get_embeddings call
\* and one client.upsert.  The call is for tenant "u1" and a document with
\* content_id 2 and n chunks; the collection may hold the points of an
\* earlier document.  failAt and failStage name the backend call that raises
\* (failAt 0: none does); calls lists the backend calls made.
UpsertMeta ==
    [content_id |-> 2, user_id |-> "u1", content_type |-> "pdf",
     source |-> "b.pdf"]

PriorPoints ==
    ChunkPoints("u1", [content_id |-> 1, user_id |-> "u1",
                       content_type |-> "pdf", source |-> "a.pdf"], 1, 1)

\* chunks[i : i + batch_size], as the first and last chunk number, without
\* the upper end of the slice.
BatchOf_NoUpper(n, i) == [lo |-> i + 1, hi |-> n]

\* chunks[i : i + batch_size], as the first and last chunk number.
BatchOf(n, i) ==
    [lo |-> i + 1, hi |-> IF i + batch_size < n THEN i + batch_size ELSE n]

InitUpsert ==
    /\ user_info = {}
    /\ cache = [k \in CacheKeys |-> NoEntry]
    /\ asked = [k \in CacheKeys |-> NoEntry]
    /\ clock = 0
    /\ content_files = {}
    /\ next_uuid = 3
    /\ \E prior \in {{}, PriorPoints} :
         /\ points = prior
         /\ collections = {p.collection : p \in prior}
    /\ \E n \in 0..(batch_size + ExtraChunks),
          failAt \in 0..NumBatches(batch_size + ExtraChunks),
          failStage \in {"ensure", "embed", "upsert"} :
         /\ failAt = 0 => failStage = "ensure"
         /\ failStage = "ensure" => failAt = 0
         /\ callers = [pc |-> "ensure", n |-> n, i |-> 0, failAt |-> failAt,
                       failStage |-> failStage, calls |-> <<>>,
                       ret |-> "None"]
    /\ last = Idle

\* self.ensure_collection_exists(collection_name); an error ends the method.
UpsertEnsure ==
    /\ callers.pc = "ensure"
    /\ \E ok \in BOOLEAN :
         \E ens \in {ensure_collection_exists(collections, "u1", ok, ok)} :
            /\ collections' = ens.colls
            /\ callers' = [callers EXCEPT !.pc =
                              IF ens.raised THEN "done" ELSE "loop"]
    /\ UNCHANGED <<content_files, points, next_uuid, historyVars, cacheVars,
                   clock, last>>

\* embeddings = self._get_embeddings(batch_chunks)
UpsertEmbed ==
    /\ callers.pc = "loop" /\ callers.i < callers.n
    /\ LET b == BatchOf(callers.n, callers.i)
           j == callers.i \div batch_size + 1
       IN  callers' =
             IF callers.failAt = j /\ callers.failStage = "embed"
             THEN [callers EXCEPT !.pc = "done"]
             ELSE [callers EXCEPT !.pc = "embedded",
                      !.calls = Append(callers.calls, <<"embed", b.lo, b.hi>>)]
    /\ UNCHANGED <<contentVars, historyVars, cacheVars, clock, last>>

\* The points of the batch are built and client.upsert writes them.
UpsertBatch ==
    /\ callers.pc = "embedded"
    /\ LET b == BatchOf(callers.n, callers.i)
           j == callers.i \div batch_size + 1
       IN  IF callers.failAt = j /\ callers.failStage = "upsert"
           THEN /\ callers' = [callers EXCEPT !.pc = "done"]
                /\ UNCHANGED points
           ELSE /\ points' = points \cup
                             ChunkPoints("u1", UpsertMeta, b.lo, b.hi)
                /\ callers' =
                     [callers EXCEPT !.pc = "loop",
                         !.i = callers.i + batch_size,
                         !.calls = Append(callers.calls,
                                          <<"upsert", b.lo, b.hi>>)]
    /\ UNCHANGED <<content_files, collections, next_uuid, historyVars,
                   cacheVars, clock, last>>

\* The loop is over: return "Content Data Successfully Uploaded".
UpsertReturn ==
    /\ callers.pc = "loop" /\ callers.i >= callers.n
    /\ callers' = [callers EXCEPT !.pc = "done",
                      !.ret = "Content Data Successfully Uploaded"]
    /\ UNCHANGED <<contentVars, historyVars, cacheVars, clock, last>>

NextUpsert == UpsertEnsure \/ UpsertEmbed \/ UpsertBatch \/ UpsertReturn

SpecUpsert == InitUpsert /\ [][NextUpsert]_vars

\* ----------------------------------------------------- specification: chunks
\* ContentProcessor.chunk_text on texts given as the list re.split returns:
\* pieces of text alternating with the section headers that were matched.  A
\* piece is core characters that hold no whitespace and no separator of the
\* splitter, followed by trail whitespace characters; is_header tells whether
\* re.match(combined_pattern, piece) matches.  A chunk is the offset at which
\* it starts in the text and its length.
SECTION_MAX == 1000
chunk_size == 1000
chunk_overlap == 200

Header == [core |-> 2, trail |-> 0, is_header |-> TRUE]

TextPieces ==
    {[core |-> 0, trail |-> 0, is_header |-> FALSE],
     [core |-> 0, trail |-> 1, is_header |-> FALSE],
     [core |-> 1, trail |-> 0, is_header |-> FALSE],
     [core |-> SECTION_MAX - 2, trail |-> 0, is_header |-> FALSE],
     [core |-> SECTION_MAX - 1, trail |-> 0, is_header |-> FALSE],
     [core |-> SECTION_MAX - 1, trail |-> 2, is_header |-> FALSE],
     [core |-> chunk_size - 1, trail |-> 0, is_header |-> TRUE],
     [core |-> 2 * chunk_size - chunk_overlap + 1, trail |-> 0,
      is_header |-> FALSE]}

\* The lists of n headers and n + 1 pieces of text.
RECURSIVE SectionLists(_)
SectionLists(n) ==
    IF n = 0 THEN {<<t>> : t \in TextPieces}
    ELSE {ss \o <<Header, t>> : ss \in SectionLists(n - 1), t \in TextPieces}

Texts == UNION {SectionLists(n) : n \in 0..MaxHeaders}

PieceLen(piece) == piece.core + piece.trail

\* not text or not text.strip()
Blank(sections) == \A i \in 1..Len(sections) : sections[i].core = 0

\* current_section += section, for a section that starts at offset at.
AppendSection(cur, section, at) ==
    IF cur.core = 0 /\ cur.trail = 0
    THEN [start |-> at, core |-> section.core, trail |-> section.trail]
    ELSE IF section.core = 0
    THEN [cur EXCEPT !.trail = cur.trail + section.trail]
    ELSE [start |-> cur.start, core |-> cur.core + cur.trail + section.core,
          trail |-> section.trail]

\* The length test with every section taken as short enough.
TooLong_Never(cur) == FALSE

\* len(current_section) > 1000
TooLong(cur) == cur.core + cur.trail > SECTION_MAX

\* chunk_text_recursive: RecursiveCharacterTextSplitter(chunk_size,
\* chunk_overlap) on a section with no separator inside: the stripped text
\* when it fits, else windows of chunk_size characters, each starting
\* chunk_size - chunk_overlap after the one before.
chunk_text_recursive(cur) ==
    LET stride == chunk_size - chunk_overlap
        n == IF cur.core <= chunk_size THEN 1
             ELSE 1 + ((cur.core - chunk_size + stride - 1) \div stride)
    IN  [k \in 1..n |->
            [start |-> cur.start + stride * (k - 1),
             len |-> IF cur.core - stride * (k - 1) < chunk_size
                     THEN cur.core - stride * (k - 1) ELSE chunk_size]]

\* What chunk_by_sections appends for current_section: nothing when it is
\* blank, the sub-chunks when it is too long, else the stripped section.
Flush(cur) ==
    IF cur.core = 0 THEN <<>>
    ELSE IF TooLong(cur) THEN chunk_text_recursive(cur)
    ELSE <<[start |-> cur.start, len |-> cur.core]>>

\* The loop of chunk_by_sections from section i on, and the final flush.
RECURSIVE SectionLoop(_, _, _, _)
SectionLoop(sections, i, cur, at) ==
    IF i > Len(sections) THEN Flush(cur)
    ELSE IF sections[i].is_header
    THEN Flush(cur) \o
         SectionLoop(sections, i + 1,
                     [start |-> at, core |-> sections[i].core,
                      trail |-> sections[i].trail],
                     at + PieceLen(sections[i]))
    ELSE SectionLoop(sections, i + 1, AppendSection(cur, sections[i], at),
                     at + PieceLen(sections[i]))

chunk_by_sections(sections) ==
    SectionLoop(sections, 1, [start |-> 0, core |-> 0, trail |-> 0], 0)

chunk_text(sections) ==
    IF Blank(sections) THEN <<>> ELSE chunk_by_sections(sections)

InitChunk ==
    /\ InitOther
    /\ content_files = {}
    /\ next_uuid = 1
    /\ points = {}
    /\ collections = {}
    /\ \E text \in Texts : last = [op |-> "text", text |-> text]

ChunkText ==
    /\ last.op = "text"
    /\ last' = [op |-> "chunk_text", text |-> last.text,
                chunks |-> chunk_text(last.text)]
    /\ UNCHANGED <<contentVars, historyVars, cacheVars, clock, callers>>

NextChunk == ChunkText

SpecChunk == InitChunk /\ [][NextChunk]_vars

\* ---------------------------------------------------- specification: extract
\* ContentProcessor.extract_text_from_url.  What a page gives an extractor is
\* the length of the text it extracts, or Unfetched when the download or the
\* parsing fails; an extractor's result is the length of its text, or NoResult
\* for None.
Unfetched == -1
NoResult == -1
MIN_TEXT == 100
FALLBACK_BELOW == 500

\* extract_text_with_trafilatura and extract_text_with_bs4: None when the page
\* cannot be fetched or the stripped text has fewer than MIN_TEXT characters.
extract_text_with_trafilatura(page) ==
    IF page = Unfetched \/ page < MIN_TEXT THEN NoResult ELSE page

extract_text_with_bs4(page) ==
    IF page = Unfetched \/ page < MIN_TEXT THEN NoResult ELSE page

\* extract_text_from_url(url) for a page that gives trafilatura the text t and
\* BeautifulSoup the text b.  tried lists the extractors that were run.
extract_text_from_url(url, t, b) ==
    IF url = ""
    THEN [ret |-> NoResult, tried |-> <<>>]
    ELSE LET first == extract_text_with_trafilatura(t)
         IN  IF first = NoResult \/ first < FALLBACK_BELOW
             THEN [ret |-> extract_text_with_bs4(b),
                   tried |-> <<"trafilatura", "bs4">>]
             ELSE [ret |-> first, tried |-> <<"trafilatura">>]

ExtractUrls == {"", "x.org", "http://x"}

PageTexts ==
    {Unfetched, 0, MIN_TEXT - 1, MIN_TEXT, FALLBACK_BELOW - 1, FALLBACK_BELOW,
     FALLBACK_BELOW + 1}

InitExtract ==
    /\ InitOther
    /\ content_files = {}
    /\ next_uuid = 1
    /\ points = {}
    /\ collections = {}
    /\ \E url \in ExtractUrls, t \in PageTexts, b \in PageTexts :
         last = [op |-> "page", url |-> url, t |-> t, b |-> b]

ExtractTextFromUrl ==
    /\ last.op = "page"
    /\ \E r \in {extract_text_from_url(last.url, last.t, last.b)} :
         last' = [op |-> "extract_text_from_url", url |-> last.url,
                  t |-> last.t, b |-> last.b, ret |-> r.ret,
                  tried |-> r.tried,
                  first |-> extract_text_with_trafilatura(last.t),
                  second |-> extract_text_with_bs4(last.b)]
    /\ UNCHANGED <<contentVars, historyVars, cacheVars, clock, callers>>

NextExtract == ExtractTextFromUrl

SpecExtract == InitExtract /\ [][NextExtract]_vars

\* ------------------------------------------------------------------ claims
IsUpload == last.op \in {"save_retrievable_docs", "save_web_content"}

ContentTypeOf(op) == IF op = "save_retrievable_docs" THEN "pdf" ELSE "web"

\* The tenant holds a record of this content type and source.
HasSource(user_id, content_type, source) ==
    \E f \in content_files : /\ f.user_id = user_id
                             /\ f.content_type = content_type
                             /\ f.source = source

PointsOf(name, content_id) ==
    {p \in points : p.collection = name /\ p.payload.content_id = content_id}

\* C1: when the first of two save_retrievable_docs calls in a row for the same
\* tenant and filename stored the ContentRecord, the second call answers
\* "PDF already exists." with no content_id and creates no point and no record.
C1_Dedup ==
    (last.op = "save_retrievable_docs" /\ last.repeat /\ last.after_stored)
        => /\ last.text = TextDupPdf
           /\ last.content_id = None
           /\ ~last.created

\* C2: an upload, through either path, for a tenant whose record count equals
\* CONTENT_LIMIT is rejected: it creates no record and no point, and the count
\* stays at CONTENT_LIMIT.
C2_Quota ==
    (IsUpload /\ last.at_limit)
        => /\ last.content_id = None
           /\ ~last.created
           /\ get_content_count(last.user_id, TRUE) = CONTENT_LIMIT

\* C4: once delete_content has answered 200 for (tenant, content_id), the
\* tenant's collection holds no point of that content_id, also when the vector
\* backend failed during the delete.
C4_CascadeDelete ==
    (last.op = "delete_content" /\ last.code = 200)
        => PointsOf(last.user_id, last.key) = {}

\* C8: after an upload whose embedding call or backend upsert failed on some
\* batch, no point of the document is stored; a document has one point per
\* chunk or none.
C8_AllOrNothing ==
    (IsUpload /\ last.drawn # None)
        => LET n == Cardinality(PointsOf(last.user_id, last.drawn))
           IN  /\ last.upsert_failed => n = 0
               /\ n \in {0, last.nchunks}

\* C9: an upload whose upsert failed does not answer success and writes no
\* ContentRecord for the document.
C9_HardFailure ==
    (IsUpload /\ last.upsert_failed)
        => /\ last.text \notin {TextPdfOk, TextWebOk}
           /\ ~last.stored
           /\ ~\E f \in content_files : f.content_id = last.drawn

\* The points a retrieval on this collection with these filters matches.
Matching(name, user_id, content_ids) ==
    {p \in points : /\ p.collection = name
                    /\ MatchesFilter(p.payload, user_id, content_ids)}

IsRetrieval == last.op \in {"query", "retrieve_similar_content"}

\* C3: RAG.query with filter=True for a tenant and a non-empty content_ids
\* list returns only payloads whose content_id is in the list and whose
\* user_id is the tenant, whatever points the collections hold.
C3_RetrievalIsolation ==
    (last.op = "query" /\ last.filter /\ last.content_ids # {})
        => \A payload \in last.ret :
              /\ payload.content_id \in last.content_ids
              /\ payload.user_id = last.user_id

\* A scoped query that returned a payload while the tenant's collection held a
\* point of another content_id and a point of another tenant.
C3_Witness ==
    /\ last.op = "query" /\ last.filter /\ last.content_ids = {1}
    /\ last.ret # {}
    /\ \E p \in points : /\ p.collection = last.user_id
                         /\ p.payload.content_id # 1
    /\ \E p \in points : /\ p.collection = last.user_id
                         /\ p.payload.user_id # last.user_id

\* C10 as stated: a retrieval in which any backend or embedding call raised
\* answers the empty list and raises nothing.
C10_Original ==
    IsRetrieval
        => /\ ~last.raised
           /\ (last.errored \/ ~last.info_ok) => last.ret = {}

\* C10 amended: no retrieval raises to its caller; when
\* ensure_collection_exists, the embedding call or query_points raised, the
\* answer is the empty list, and so it is when the collection holds no point
\* or no point matches.  (A points_count check that raises is only logged.)
C10_QueryDegradation ==
    IsRetrieval
        => /\ ~last.raised
           /\ last.errored => last.ret = {}
           /\ Matching(last.collection, IF last.filter THEN last.user_id ELSE NoUser, IF last.filter THEN last.content_ids ELSE {}) = {}
                 => last.ret = {}

\* A direct retrieval on a collection with matching points in which a call
\* raised, answered with the empty list.
C10_Witness ==
    /\ last.op = "retrieve_similar_content" /\ last.errored
    /\ ~last.raised /\ last.ret = {}
    /\ Matching(last.collection, last.user_id, last.content_ids) # {}

\* C5: a caller of ensure_collection_exists whose backend calls did not fail
\* does not raise, however the calls of the callers interleave.
C5_IdempotentCreate ==
    \A c \in Callers : callers[c].pc = "raised" => callers[c].failed

\* C6: after a create_user_information for a user that did not raise and
\* whose cleaning did not fail, the user has at most keep_records entries
\* (the user had no more than that before the call).
C6_HistoryCap ==
    (/\ last.op = "create_user_information" /\ ~last.raised /\ last.clean_ok
     /\ last.before <= keep_records)
        => Cardinality(UserRecords(user_info, last.user_id)) <= keep_records

\* C7: get_audio_cache(key) returns the bytes of the last set_audio_cache that
\* wrote the key while fewer than its expire_seconds have passed since, and
\* None once they have passed.
C7_CacheTtl ==
    last.op = "get_audio_cache"
        => LET a == asked[last.key]
           IN  /\ last.ret # None => /\ a.data = last.ret
                                     /\ last.at - a.set_at < a.ex
               /\ (a.data # None /\ last.at - a.set_at >= a.ex)
                     => last.ret = None

\* A read that missed at the very second the expire_seconds of the write had
\* passed, the entry being the one that was written.
C7_Witness ==
    /\ last.op = "get_audio_cache" /\ last.ret = None
    /\ asked[last.key].data # None
    /\ last.at - asked[last.key].set_at = asked[last.key].ex
    /\ cache[last.key] = asked[last.key]

\* C11: no two ContentRecords of one tenant have the same filename (PDF) or
\* the same url (web), however the uploads of several callers interleave.
C11_SourceUniqueness ==
    \A f \in content_files, g \in content_files :
        (/\ f.user_id = g.user_id /\ f.content_type = g.content_type
         /\ f.source = g.source) => f = g

\* C12: with requests that run one at a time, every tenant has at most
\* CONTENT_LIMIT ContentRecords in every state.
C12_QuotaInvariant ==
    \A user_id \in Tenants : get_content_count(user_id, TRUE) <= CONTENT_LIMIT

RejectionTexts == {TextInvalidUrl, TextDupPdf, TextDupUrl, TextQuota}

\* C14: an upload that is rejected as an invalid URL, as a duplicate or as
\* over quota changes nothing that is persisted: no content_id is drawn (so no
\* file is saved and nothing is extracted), no collection is created, no
\* point, no ContentRecord and no history record is written.
C14_RejectionNoSideEffects ==
    [][(IsUpload' /\ last'.text \in RejectionTexts)
            => /\ UNCHANGED <<content_files, collections, points, next_uuid,
                             user_info>>
               /\ last'.drawn = None /\ ~last'.created]_vars

\* A web upload rejected by validate_url.
C14_Witness ==
    last.op = "save_web_content" /\ last.text = TextInvalidUrl /\ ~last.url_ok

C16_NoContext ==
    (/\ last.op = "get_result_from_rag"
     /\ last.returned[1] = <<>> /\ last.returned[2] = <<>>)
        => (last.ret = "None" /\ ~last.searched /\ ~last.generated)

\* A call both of whose retrievals failed.
C16_Witness ==
    /\ last.op = "get_result_from_rag"
    /\ last.errored = <<TRUE, TRUE>> /\ last.ret = "None"

\* C17: a query of a tenant that has no ingested content, made while the
\* shared collection cannot be reached, is answered with the fixed
\* "can't help with your question" text.
C17_FallbackAnswer ==
    (last.op = "agent" /\ ~last.had_content /\ last.shared_failed)
        => last.answer = TextCantHelp

\* C18: a PDF upload that is admitted and meets no backend failure answers
\* "PDF uploaded successfully." with the content_id it drew; afterwards the
\* tenant has exactly one ContentRecord with that content_id and one point per
\* chunk carrying that content_id and the tenant's user_id.
C18_SuccessfulIngestion ==
    (/\ last.op = "save_retrievable_docs" /\ last.drawn # None
     /\ last.find_ok /\ last.count_ok /\ last.stored /\ ~last.upsert_failed)
        => /\ last.text = TextPdfOk
           /\ last.content_id = last.drawn
           /\ Cardinality({f \in content_files :
                                f.content_id = last.drawn}) = 1
           /\ Cardinality(PointsOf(last.user_id, last.drawn)) = last.nchunks
           /\ \A p \in PointsOf(last.user_id, last.drawn) :
                p.payload.user_id = last.user_id

\* C19: when Redis is not available or the Redis call raises, get_audio_cache
\* returns None and set_audio_cache leaves the cache as it was: what the
\* caller sees is a miss, and nothing is raised.
C19_BestEffortCache ==
    [][(/\ last'.op \in {"get_audio_cache", "set_audio_cache"}
        /\ ~(last'.available /\ last'.call_ok))
            => (last'.ret = None /\ cache' = cache)]_vars

\* A get_audio_cache whose GET raised while the key held unexpired bytes.
C19_Witness ==
    /\ last.op = "get_audio_cache" /\ last.available /\ ~last.call_ok
    /\ last.at = clock /\ last.ret = None
    /\ cache[last.key].data # None /\ ~Expired(cache[last.key], clock)

\* C20: on get_summary_audio and get_query_audio, a cache hit returns the
\* cached bytes with no generation and no set_audio_cache; a miss for a
\* record whose text is not empty generates the audio and, when that yields
\* audio, makes exactly one set_audio_cache call with expire_seconds 600 and
\* returns the audio.
C20_CacheMissFlow ==
    last.op \in {"get_summary_audio", "get_query_audio"}
        => /\ last.hit => /\ last.code = 200 /\ last.ret = last.held
                          /\ ~last.generated /\ last.sets = 0
           /\ (~last.hit /\ last.text = "text")
                => /\ last.generated
                   /\ last.ret # None
                        => (last.code = 200 /\ last.sets = 1
                            /\ last.ttl = AUDIO_TTL)

\* C21: a PDF upload that yields no chunk (its extracted text is empty or
\* blank: chunk_text gives []) is not answered "PDF uploaded successfully."
\* and leaves no ContentRecord with the content_id it drew.
C21_EmptyDocument ==
    (/\ last.op = "save_retrievable_docs" /\ last.drawn # None
     /\ last.nchunks = 0 /\ last.find_ok /\ last.count_ok
     /\ ~last.upsert_failed)
        => /\ last.text # TextPdfOk
           /\ ~\E f \in content_files : f.content_id = last.drawn

\* C22: when get_result_from_rag is given content_ids, every payload of the
\* combined results belongs to one of those content items.
C22_ScopedAnswers ==
    (last.op = "get_result_from_rag" /\ last.content_ids # {})
        => \A i \in 1..Len(last.combined) :
                last.combined[i].content_id \in last.content_ids

\* C23: after clear_user_data of a tenant has answered 200 (the record store
\* having served the request without failure) the tenant has no
\* ContentRecord, no history entry and no point, and its collection is gone;
\* the records, history entries and points of the other tenants are as they
\* were.
C23_TenantWipe ==
    (/\ last.op = "clear_user_data" /\ last.code = 200
     /\ last.list_ok /\ last.mongo_ok)
        => /\ get_content_count(last.user_id, TRUE) = 0
           /\ UserRecords(user_info, last.user_id) = {}
           /\ ~\E p \in points : p.collection = last.user_id
           /\ last.user_id \notin collections
           /\ last.before =
                <<{f \in content_files : f.user_id # last.user_id},
                  {i \in user_info : i.user_id # last.user_id},
                  {p \in points : p.collection # last.user_id}>>

\* C24: an upload that follows a delete_content answered 200 for the record
\* of the same tenant and source is not rejected as a duplicate; the
\* content_id it draws is not the deleted one and none of its points has the
\* identifier of a deleted point.
C24_ReingestionAfterDelete ==
    (IsUpload /\ last.after_delete)
        => /\ last.text \notin {TextDupPdf, TextDupUrl}
           /\ last.drawn # None
                => /\ last.drawn # last.deleted.content_id
                   /\ \A p \in PointsOf(last.user_id, last.drawn) :
                        p.id \notin last.deleted.ids

\* C25: chunk_text gives the empty list for a blank text; for any other text
\* every chunk is non-empty and at most chunk_size characters long, the
\* chunks are in document order, a text that is one section of at most
\* SECTION_MAX characters gives one chunk and a longer one whose stripped
\* text exceeds chunk_size gives several.
C25_ChunkBounds ==
    last.op = "chunk_text"
        => LET chunks == last.chunks
               text == last.text
           IN  /\ Blank(text) <=> chunks = <<>>
               /\ \A k \in 1..Len(chunks) :
                    chunks[k].len >= 1 /\ chunks[k].len <= chunk_size
               /\ \A k \in 1..(Len(chunks) - 1) :
                    chunks[k].start < chunks[k + 1].start
               /\ (Len(text) = 1 /\ ~Blank(text))
                    => IF PieceLen(text[1]) <= SECTION_MAX
                          \/ text[1].core <= chunk_size
                       THEN Len(chunks) = 1 ELSE Len(chunks) > 1

\* A text with a header whose first piece is one chunk and whose section is
\* split into several.
C25_Witness ==
    /\ last.op = "chunk_text" /\ Len(last.text) = 3
    /\ last.text[1].core = 1 /\ last.text[3].core > chunk_size
    /\ Len(last.chunks) = 4

\* C26: extract_text_from_url of a url runs the precision extractor first and
\* returns its result when that has at least FALLBACK_BELOW characters;
\* otherwise it runs the DOM-based extractor; it returns None only if neither
\* extractor produces a result.
C26_WebExtractionFallback ==
    (last.op = "extract_text_from_url" /\ last.url # "")
        => /\ last.tried[1] = "trafilatura"
           /\ (last.first # NoResult /\ last.first >= FALLBACK_BELOW)
                => (last.ret = last.first /\ Len(last.tried) = 1)
           /\ (last.first = NoResult \/ last.first < FALLBACK_BELOW)
                => last.tried = <<"trafilatura", "bs4">>
           /\ last.ret = NoResult
                => (last.first = NoResult /\ last.second = NoResult)

\* C27: an upload answered with an error text ("Error uploading PDF",
\* "Error adding web content", "Failed to extract content from URL.") leaves
\* no ContentRecord and no point of the content_id it drew, and the tenant
\* holds no record of the source unless it held one before.
C27_FailedUploadLeavesNothing ==
    (IsUpload /\ last.text \in {TextPdfError, TextWebError, TextExtractFailed})
        => /\ ~\E f \in content_files : f.content_id = last.drawn
           /\ PointsOf(last.user_id, last.drawn) = {}
           /\ HasSource(last.user_id, ContentTypeOf(last.op), last.key)
                => last.had_source

\* C28: with at most NumCallers uploads in flight at the same time, no tenant
\* ever has more than CONTENT_LIMIT + NumCallers - 1 ContentRecords.
C28_BoundedQuotaRace ==
    \A user_id \in Tenants :
        Cardinality({f \in content_files : f.user_id = user_id})
            <= CONTENT_LIMIT + NumCallers - 1

\* C29: every backend upsert and every similarity query on a tenant's
\* collection is issued while that collection exists, however the calls
\* interleave with the delete_collection of a clear_user_data of the tenant.
C29_CollectionExistsAtUse ==
    last.op \in {"upsert", "query_points"} => last.existed

\* The points an upsert_data call has added to the collection.
UpsertWritten == {p \in points : p \notin PriorPoints}

\* The chunk numbers of batch j of a call with n chunks.
UpsertBatchLo(j) == (j - 1) * batch_size + 1

UpsertBatchHi(n, j) == IF j * batch_size < n THEN j * batch_size ELSE n

\* C30: a successful upsert_data for n chunks has made ceil(n / batch_size)
\* embedding calls, each followed by one backend upsert of the same batch of
\* at most batch_size chunks, in chunk order; it has written n points with
\* pairwise distinct identifiers that no earlier point has, and the payload
\* of each is the metadata plus the text of its own chunk.
C30_BatchedUpsert ==
    (callers.pc = "done" /\ callers.ret = "Content Data Successfully Uploaded")
    => LET n == callers.n
           nb == CHOOSE m \in 0..(n + 1) :
                     m * batch_size >= n /\ (m = 0 \/ (m - 1) * batch_size < n)
       IN  /\ Len(callers.calls) = 2 * nb
           /\ \A j \in 1..nb :
                /\ callers.calls[2 * j - 1] =
                       <<"embed", UpsertBatchLo(j), UpsertBatchHi(n, j)>>
                /\ callers.calls[2 * j] =
                       <<"upsert", UpsertBatchLo(j), UpsertBatchHi(n, j)>>
                /\ UpsertBatchHi(n, j) - UpsertBatchLo(j) + 1 <= batch_size
           /\ Cardinality(UpsertWritten) = n
           /\ Cardinality({p.id : p \in UpsertWritten}) = n
           /\ \A p \in UpsertWritten : \A q \in PriorPoints : p.id # q.id
           /\ \A k \in 1..n :
                \E p \in UpsertWritten :
                   /\ p.collection = "u1"
                   /\ p.payload = [content_id |-> UpsertMeta.content_id,
                                   user_id |-> UpsertMeta.user_id,
                                   content_type |-> UpsertMeta.content_type,
                                   source |-> UpsertMeta.source, text |-> k]

\* A successful call whose last batch is a partial second one, into a
\* collection that already held a point.
C30_Witness ==
    /\ callers.pc = "done"
    /\ callers.ret = "Content Data Successfully Uploaded"
    /\ callers.n > batch_size
    /\ PriorPoints \subseteq points

\* The entries of a list.
Entries(s) == {s[i] : i \in 1..Len(s)}

\* The entries the store a call worked on holds for a user, in a pair of
\* stores.
StoreEntries(stores, op, user_id) ==
    IF op = "History.create_history"
    THEN Entries(stores.file[user_id])
    ELSE UserRecords(stores.sql, user_id)

\* C31: after every History.create_history and every
\* DatabaseManager.create_user_information that returned, the user holds at
\* most 3 entries, namely the latest of the earlier ones and the new one, the
\* new entry is among them, and the entries of every other user are unchanged.
C31_HistoryCap ==
    (/\ last.op \in {"History.create_history",
                     "DatabaseManager.create_user_information"}
     /\ ~last.raised)
    => LET held == StoreEntries(user_info, last.op, last.user_id)
           had == StoreEntries(last.before, last.op, last.user_id)
       IN  /\ Cardinality(held) <= 3
           /\ held = MostRecent(had \cup {last.entry}, 3)
           /\ last.entry \in held
           /\ \A other \in Tenants \ {last.user_id} :
                StoreEntries(user_info, last.op, other)
                    = StoreEntries(last.before, last.op, other)

\* C32: when the generation raises or returns an empty output, the assistant
\* answers with the "no answer" message and the attempt is recorded for the
\* user.
C32_AttemptRecorded ==
    (last.op = "assistant_response" /\ last.generate \in {"raises", ""})
    => /\ last.ret = TextApology
       /\ last.entry \in user_info.sql

OwnersOf(files, content_id) ==
    {f.user_id : f \in {g \in files : g.content_id = content_id}}

\* C35: a delete_content of tenant A for a content_id that belongs to another
\* tenant answers 404 and removes no record, no stored PDF file and no point;
\* and any delete_content for (A, X) adds nothing and removes no record, file
\* or point other than those of content X of tenant A.
C35_DeleteTenantScoped ==
    last.op = "delete_content"
    => /\ (last.user_id \notin OwnersOf(last.before.files, last.key))
          => /\ last.code = 404
             /\ content_files = last.before.files
             /\ points = last.before.points
             /\ last.removed = {}
       /\ content_files \subseteq last.before.files
       /\ points \subseteq last.before.points
       /\ \A f \in last.before.files \ content_files :
            f.user_id = last.user_id /\ f.content_id = last.key
       /\ \A p \in last.before.points \ points :
            /\ p.collection = last.user_id
            /\ p.payload.user_id = last.user_id
            /\ p.payload.content_id = last.key
       /\ last.removed \subseteq {last.key}

\* Tenant u1 has asked to delete the content of tenant u2, which is stored.
C35_Witness ==
    /\ last.op = "delete_content"
    /\ last.user_id = "u1"
    /\ last.key = LifecycleFile("u2").content_id
    /\ LifecycleFile("u2") \in last.before.files
    /\ last.code = 404

\* C36: whatever user_id a request carries, the shared knowledge collection
\* and the memory collection keep existing and keep exactly their points: no
\* upload adds to them, no delete_content or clear_user_data removes from
\* them.
C36_SharedCorpusProtected ==
    /\ SharedCollections \subseteq collections
    /\ {p \in points : p.collection \in SharedCollections} = SharedPoints

\* What a user holds in a set of stores: records, points of the collection
\* named after the user, history entries.
HeldBy(stores, user) ==
    [files |-> {f \in stores.files : f.user_id = user},
     points |-> {p \in stores.points : p.collection = user},
     colls |-> stores.colls \cap {user},
     infos |-> {i \in stores.infos : i.user_id = user}]

\* C37: a request whose token authenticates user A creates and deletes no
\* content record, vector point or history entry of a different user B,
\* whatever user_id the form carries.
C37_ActsOnAuthenticatedTenant ==
    last.op \in {"upload_content", "delete_content", "clear_user_data"}
    => \A B \in Tenants \ {last.current_user_id} :
          HeldBy([files |-> content_files, colls |-> collections,
                  points |-> points, infos |-> user_info], B)
              = HeldBy(last.before, B)

\* C38: for every word the classifier returns, a run that agent() has
\* returned from has passed the classifier, then at most one agent node, then
\* the finalizer and END, and agent() has returned a string without raising.
C38_WorkflowFinalizes ==
    \A c \in Callers :
        (callers[c].pc = "returned" /\ callers[c].word \in Words)
        => /\ callers[c].path \in
                {<<"classifier", "finalizer", "END">>}
                \cup {<<"classifier", a, "finalizer", "END">> : a \in AgentNodes}
           /\ callers[c].ret # ""

\* C39: a _create_memory_update_memory call of user A without a memory_id
\* that returns deletes no memory of another user: what it removes is at most A's own
\* oldest memory; and after the call the new memory of A is stored.
C39_MemoryEvictionPerUser ==
    (last.op = "_create_memory_update_memory" /\ last.memory_id = None
       /\ ~last.raised)
    => LET gone == last.before \ Memories(points)
           own == {m \in last.before : m.payload.user_id = last.user_id}
       IN  /\ \A m \in gone : m.payload.user_id = last.user_id
           /\ gone # {} => gone = {OldestMemory(own)}
           /\ \E m \in Memories(points) \ last.before :
                m.payload.user_id = last.user_id

====
